---------------------------- MODULE Spec2Model ----------------------------
(***************************************************************************)
(* A model of the operator-forwarding protocol of std::constexpr_wrapper   *)
(* (src/include/constexpr_wrapper.hpp) as the compiler resolves it.        *)
(*                                                                         *)
(* The library has no run-time state: what it "does" is decide, for an     *)
(* expression written by client code, which overload is selected and what  *)
(* the type and value of the result are.  One step of the model is the     *)
(* translation of one expression: `expr` is the expression, `res` the      *)
(* outcome of overload resolution for it.  `obj` is a wrapper object that   *)
(* client code has declared; it stays in scope, whatever expressions       *)
(* follow, to the end of the block (test.cpp:233-244).                     *)
(*                                                                         *)
(* A C++ type that can appear as an operand is a record                    *)
(*    [kind, x, t]                                                         *)
(*  kind = "wrapper" : constexpr_wrapper<x, t>                             *)
(*         "derived" : a class publicly derived from constexpr_wrapper<x,t>*)
(*                     that adds nothing (Derived of test.cpp)             *)
(*         "shadow"  : such a class that declares its own non-static data  *)
(*                     member `value`                                      *)
(*         "foreign" : std::integral_constant<t, x> (static `value` and a  *)
(*                     conversion operator to t)                           *)
(*         "static"  : a class with `static constexpr t value = x` and     *)
(*                     nothing else                                        *)
(*         "plain"   : an ordinary run-time object of arithmetic type t    *)
(*                     holding x                                           *)
(*         "object"  : an ordinary run-time object of class type t holding *)
(*                     x in a non-static data member `value` (NeedsAdl)    *)
(*         "constexpr_t" : constexpr_t<x> of constexpr_t.hpp, the variant  *)
(*                     without a value-type parameter                      *)
(* A value is a record [ty, v]: its C++ type and its numeric content.      *)
(* A second specification, LitSpec, translates integer literals with the   *)
(* suffixes cw, CW, w and W (constexpr_wrapper.hpp:360-472).               *)
(***************************************************************************)
EXTENDS Integers, Sequences, FiniteSets, TLC

VARIABLES expr, res, obj

vars == <<expr, res, obj>>

(***************************************************************************)
(* Bounds of the model.                                                    *)
(***************************************************************************)
\* integer operands range over -MaxNeg .. MaxVal
MaxVal == 2
MaxNeg == 1
\* longest argument list of a call or subscript
MaxArgs == 2

(***************************************************************************)
(* Value types.                                                            *)
(*  bool, int, long : arithmetic types (LP64)                              *)
(*  NeedsAdl  : test.cpp:99-111, a structural class with an int member, a  *)
(*              converting constructor from int and a hidden friend        *)
(*              operator+(NeedsAdl, NeedsAdl) -> int                       *)
(*  NonStruct : a literal class with a constexpr converting constructor    *)
(*              from int and a private member: usable in constant          *)
(*              expressions but not structural, so never a template        *)
(*              argument                                                   *)
(*  Test      : test.cpp:26-40, the callable / subscriptable structural    *)
(*              class                                                      *)
(*  Maker     : a structural callable whose call and subscript results are *)
(*              of type NonStruct (a callee whose result is not            *)
(*              admissible as a template argument)                         *)
(*  Aaaargh   : test.cpp:128-165, an empty structural class whose          *)
(*              const-qualified operators =, +=, -=, ++, -- return ints     *)
(*  SelfAsg   : a structural class with an int member v and                *)
(*              `constexpr int operator=(const SelfAsg& o) const`, which    *)
(*              returns o.v                                                *)
(*  Pt        : a structural aggregate with one int member m               *)
(*  Handle    : a structural class holding a pointer to a Pt object with   *)
(*              static storage, which its operator->() const returns       *)
(***************************************************************************)
ArithTypes == {"bool", "int", "long"}

ClassTypes == {"NeedsAdl", "NonStruct"}

CallableTypes == {"Test", "Maker"}

TV(ty, v) == [ty |-> ty, v |-> v]

NoVal == TV("void", 0)

IntVals == (0 - MaxNeg) .. MaxVal

ArithValues ==
    {TV("bool", v) : v \in {0, 1}} \cup {TV(ty, v) : ty \in {"int", "long"}, v \in IntVals}

\* the values a NeedsAdl object is given in the model
AdlValues == {TV("NeedsAdl", v) : v \in 0 .. MaxVal}

\* values usable as the template argument _Xp of the operands of binary operators
XValues == ArithValues \cup AdlValues

\* the one value of the empty class Aaaargh
AaaarghValue == TV("Aaaargh", 0)

IsArith(ty) == ty \in ArithTypes

\* the floating-point types of the wrapped values of test.cpp:16 and 225-226
FloatTypes == {"float", "double"}

IsFloat(ty) == ty \in FloatTypes

IsNumeric(ty) == IsArith(ty) \/ IsFloat(ty)

\* a floating-point value: its sign bit and its magnitude v / den in lowest terms,
\* so that -0.0 and 0.0 are two values (and two template arguments).  A magnitude
\* that is no binary fraction stands for the floating-point number nearest to it.
Fp(ty, sign, num, den) == [ty |-> ty, v |-> num, sign |-> sign, den |-> den]

\* the floating-point operands: of integral magnitude
FloatValues ==
    {Fp(ty, sign, mag, 1) : ty \in FloatTypes, sign \in {0, 1}, mag \in 0 .. MaxVal}

\* structural types: admissible as the type of a non-type template argument
IsStructural(ty) ==
    ty \in ArithTypes \cup FloatTypes
            \cup {"NeedsAdl", "Test", "Maker", "Aaaargh", "SelfAsg", "Pt", "Handle", "pointer"}

(***************************************************************************)
(* Native arithmetic of the value types: what `a op b` means for the       *)
(* unwrapped values.  The wrapper's operators use it in their return       *)
(* types (`_Ap::value op _Bp::value`, constexpr_wrapper.hpp:141-234); the  *)
(* built-in operators use it when no wrapper operator is selected.         *)
(* Every value of the model is far inside the range of int, so no          *)
(* operation on the modelled operands overflows its type.                  *)
(***************************************************************************)
\* the operators whose operands are two numbers and whose result is a number
ArithmeticOps ==
    {"+", "-", "*", "/", "%", "&", "|", "^", "&&", "||", "<<", ">>",
     "==", "!=", "<", "<=", ">", ">="}

\* the non-mutating binary operators the wrapper declares
\* (constexpr_wrapper.hpp:141-244)
BinaryOps == ArithmeticOps \cup {",", "<=>", "->*"}

\* the result of a <=> b on integers: a std::strong_ordering, a class with a
\* private member (less = -1, equal = 0, greater = 1)
Ordering(a, b) == [ty |-> "strong_ordering", v |-> IF a < b THEN 0 - 1 ELSE IF a = b THEN 0 ELSE 1]

Abs(n) == IF n < 0 THEN 0 - n ELSE n

Rank(ty) ==
    CASE ty = "bool" -> 0 [] ty = "int" -> 1 [] ty = "long" -> 2
      [] ty = "float" -> 3 [] ty = "double" -> 4 [] OTHER -> 0 - 1

\* integral promotion
Promote(ty) == IF ty = "bool" THEN "int" ELSE ty

\* usual arithmetic conversions
CommonType(t1, t2) == IF Rank(Promote(t1)) >= Rank(Promote(t2)) THEN Promote(t1) ELSE Promote(t2)

Width(ty) == IF ty = "long" THEN 64 ELSE 32

\* conversion of the integer v to arithmetic type `to`
ConvertArith(v, to) == IF to = "bool" THEN (IF v = 0 THEN 0 ELSE 1) ELSE v

\* C++ division truncates towards zero; \div rounds down
TruncDiv(a, b) ==
    IF (a >= 0) = (b > 0) THEN Abs(a) \div Abs(b) ELSE 0 - (Abs(a) \div Abs(b))

TruncMod(a, b) == a - b * TruncDiv(a, b)

RECURSIVE Pow2(_)
Pow2(n) == IF n <= 0 THEN 1 ELSE 2 * Pow2(n - 1)

\* bitwise and of two's complement integers of unbounded width
RECURSIVE BitAnd(_, _)
BitAnd(a, b) ==
    IF a = 0 \/ b = 0 THEN 0
    ELSE IF a = 0 - 1 THEN b
    ELSE IF b = 0 - 1 THEN a
    ELSE (a % 2) * (b % 2) + 2 * BitAnd(a \div 2, b \div 2)

BitOr(a, b) == a + b - BitAnd(a, b)

BitXor(a, b) == a + b - 2 * BitAnd(a, b)

BoolInt(p) == IF p THEN 1 ELSE 0

\* An evaluation: wf = the expression is well-formed, const = it is a constant
\* expression (its evaluation has no undefined behaviour), val = its typed value.
Eval(wf, const, val) == [wf |-> wf, const |-> const, val |-> val]

IllFormed == Eval(FALSE, FALSE, NoVal)

\* the built-in operator on two arithmetic values
ArithOp(op, a, b) ==
    LET ct == CommonType(a.ty, b.ty)
        pt == Promote(a.ty)
    IN CASE op = "+" -> Eval(TRUE, TRUE, TV(ct, a.v + b.v))
         [] op = "-" -> Eval(TRUE, TRUE, TV(ct, a.v - b.v))
         [] op = "*" -> Eval(TRUE, TRUE, TV(ct, a.v * b.v))
         [] op = "/" -> IF b.v = 0 THEN Eval(TRUE, FALSE, TV(ct, 0))
                        ELSE Eval(TRUE, TRUE, TV(ct, TruncDiv(a.v, b.v)))
         [] op = "%" -> IF b.v = 0 THEN Eval(TRUE, FALSE, TV(ct, 0))
                        ELSE Eval(TRUE, TRUE, TV(ct, TruncMod(a.v, b.v)))
         [] op = "&" -> Eval(TRUE, TRUE, TV(ct, BitAnd(a.v, b.v)))
         [] op = "|" -> Eval(TRUE, TRUE, TV(ct, BitOr(a.v, b.v)))
         [] op = "^" -> Eval(TRUE, TRUE, TV(ct, BitXor(a.v, b.v)))
         [] op = "&&" -> Eval(TRUE, TRUE, TV("bool", BoolInt(a.v # 0 /\ b.v # 0)))
         [] op = "||" -> Eval(TRUE, TRUE, TV("bool", BoolInt(a.v # 0 \/ b.v # 0)))
         [] op = "<<" -> IF b.v < 0 \/ b.v >= Width(pt) THEN Eval(TRUE, FALSE, TV(pt, 0))
                         ELSE Eval(TRUE, TRUE, TV(pt, a.v * Pow2(b.v)))
         [] op = ">>" -> IF b.v < 0 \/ b.v >= Width(pt) THEN Eval(TRUE, FALSE, TV(pt, 0))
                         ELSE Eval(TRUE, TRUE, TV(pt, a.v \div Pow2(b.v)))
         [] op = "==" -> Eval(TRUE, TRUE, TV("bool", BoolInt(a.v = b.v)))
         [] op = "!=" -> Eval(TRUE, TRUE, TV("bool", BoolInt(a.v # b.v)))
         [] op = "<" -> Eval(TRUE, TRUE, TV("bool", BoolInt(a.v < b.v)))
         [] op = "<=" -> Eval(TRUE, TRUE, TV("bool", BoolInt(a.v <= b.v)))
         [] op = ">" -> Eval(TRUE, TRUE, TV("bool", BoolInt(a.v > b.v)))
         [] op = ">=" -> Eval(TRUE, TRUE, TV("bool", BoolInt(a.v >= b.v)))
         \* the built-in <=> does not compare a bool with a number of another type
         [] op = "<=>" -> IF (a.ty = "bool") # (b.ty = "bool") THEN IllFormed
                          ELSE Eval(TRUE, TRUE, Ordering(a.v, b.v))
         [] OTHER -> IllFormed

RECURSIVE Gcd(_, _)
Gcd(a, b) == IF b = 0 THEN a ELSE Gcd(b, a % b)

\* The built-in operator on two numbers of which one at least is of floating-point
\* type: the operands are converted to the common floating-point type.  The bit
\* operators, the shifts and % are not defined.  An exact zero is positive, unless
\* the rules of the arithmetic give it the sign bit (-0.0 + -0.0, -0.0 * 2.0).  A
\* division by zero is not a constant expression.  The result of <=> is a
\* std::partial_ordering.
FloatOp(op, a, b) ==
    LET ct == CommonType(a.ty, b.ty)
        \* the sign bit of a number, and the number as the fraction SNum / Den
        SignBit(x) == IF IsFloat(x.ty) THEN x.sign ELSE BoolInt(x.v < 0)
        SNum(x) == IF IsFloat(x.ty) /\ x.sign = 1 THEN 0 - x.v ELSE x.v
        Den(x) == IF IsFloat(x.ty) THEN x.den ELSE 1
        \* the value n / d (d > 0) of type ct; a zero has the sign bit zsign
        MakeFloat(n, d, zsign) ==
            IF n = 0 THEN Fp(ct, zsign, 0, 1)
            ELSE Fp(ct, BoolInt(n < 0), Abs(n) \div Gcd(Abs(n), d), d \div Gcd(Abs(n), d))
        an == SNum(a)
        ad == Den(a)
        bn == SNum(b)
        bd == Den(b)
        sa == SignBit(a)
        sb == SignBit(b)
        cmp == an * bd - bn * ad
    IN CASE op = "+" ->
              Eval(TRUE, TRUE, MakeFloat(an * bd + bn * ad, ad * bd, BoolInt(sa = 1 /\ sb = 1)))
         [] op = "-" ->
              Eval(TRUE, TRUE, MakeFloat(an * bd - bn * ad, ad * bd, BoolInt(sa = 1 /\ sb = 0)))
         [] op = "*" -> Eval(TRUE, TRUE, MakeFloat(an * bn, ad * bd, BoolInt(sa # sb)))
         [] op = "/" ->
              IF bn = 0 THEN Eval(TRUE, FALSE, Fp(ct, 0, 0, 1))
              ELSE Eval(TRUE, TRUE,
                        MakeFloat((IF bn < 0 THEN 0 - an ELSE an) * bd, ad * Abs(bn),
                                  BoolInt(sa # sb)))
         [] op = "&&" -> Eval(TRUE, TRUE, TV("bool", BoolInt(an # 0 /\ bn # 0)))
         [] op = "||" -> Eval(TRUE, TRUE, TV("bool", BoolInt(an # 0 \/ bn # 0)))
         [] op = "==" -> Eval(TRUE, TRUE, TV("bool", BoolInt(cmp = 0)))
         [] op = "!=" -> Eval(TRUE, TRUE, TV("bool", BoolInt(cmp # 0)))
         [] op = "<" -> Eval(TRUE, TRUE, TV("bool", BoolInt(cmp < 0)))
         [] op = "<=" -> Eval(TRUE, TRUE, TV("bool", BoolInt(cmp <= 0)))
         [] op = ">" -> Eval(TRUE, TRUE, TV("bool", BoolInt(cmp > 0)))
         [] op = ">=" -> Eval(TRUE, TRUE, TV("bool", BoolInt(cmp >= 0)))
         \* the built-in <=> does not compare a bool with a number of another type
         [] op = "<=>" ->
              IF (a.ty = "bool") # (b.ty = "bool") THEN IllFormed
              ELSE Eval(TRUE, TRUE,
                        [ty |-> "partial_ordering",
                         v |-> IF cmp < 0 THEN 0 - 1 ELSE IF cmp = 0 THEN 0 ELSE 1])
         [] OTHER -> IllFormed

\* the int a number converts to: a floating-point value is truncated
IntOf(x) == IF IsFloat(x.ty) THEN (IF x.sign = 1 THEN 0 - (x.v \div x.den) ELSE x.v \div x.den)
            ELSE x.v

\* NeedsAdl's hidden friend operator+ (test.cpp:108-110); a number reaches it
\* through the converting constructor NeedsAdl(int) (test.cpp:103-106)
AdlPlus(a, b) == Eval(TRUE, TRUE, TV("int", IntOf(a) + IntOf(b)))

\* Aaaargh::operator->*(int x) const returns x + 5 (test.cpp:158-160)
MemberArrowStar(a, b) == Eval(TRUE, TRUE, TV("int", IntOf(b) + 5))

\* `constexpr bool operator==(const Test&) const = default` (test.cpp:38-39)
\* compares the members `value`; a != b is rewritten as !(a == b)
TestEq(op, a, b) == Eval(TRUE, TRUE, TV("bool", BoolInt((a.v = b.v) = (op = "=="))))

\* `a op b` on two unwrapped values; the comma operator yields its right operand
NativeOp(op, a, b) ==
    IF op = "," THEN Eval(TRUE, TRUE, b)
    ELSE IF IsArith(a.ty) /\ IsArith(b.ty) THEN ArithOp(op, a, b)
    ELSE IF IsNumeric(a.ty) /\ IsNumeric(b.ty) THEN FloatOp(op, a, b)
    ELSE IF /\ op = "+"
            /\ {a.ty, b.ty} \subseteq ArithTypes \cup FloatTypes \cup {"NeedsAdl"}
         THEN AdlPlus(a, b)
    ELSE IF op = "->*" /\ a.ty = "Aaaargh" /\ IsNumeric(b.ty) THEN MemberArrowStar(a, b)
    ELSE IF op \in {"==", "!="} /\ a.ty = "Test" /\ b.ty = "Test" THEN TestEq(op, a, b)
    ELSE IllFormed

(***************************************************************************)
(* Operand types.                                                          *)
(***************************************************************************)
Ty(kind, x, t) == [kind |-> kind, x |-> x, t |-> t]

Wrapper(x, t) == Ty("wrapper", x, t)

\* std::cw<x> (constexpr_wrapper.hpp:357-358): the value type is deduced
Cw(x) == Wrapper(x, x.ty)

NoType == Ty("none", NoVal, "void")

\* `static constexpr value_type value{ _Xp }` (constexpr_wrapper.hpp:60) is
\* list-initialisation: a narrowing conversion of _Xp makes it ill-formed
ListInitOK(x, t) ==
    \/ x.ty = t
    \/ /\ IsArith(x.ty)
       /\ \/ t \in {"int", "long"}
          \/ t = "bool" /\ x.v \in {0, 1}
          \/ t \in ClassTypes
    \* a constant that the floating-point type represents is not narrowed; a
    \* floating-point value is narrowed by every conversion to an integral type
    \/ IsNumeric(x.ty) /\ IsFloat(t)

\* the value of type t initialised from x (constexpr_wrapper.hpp:60, 62-64)
ConvertValue(x, t) ==
    IF x.ty = t THEN x
    ELSE IF IsArith(x.ty) /\ IsArith(t) THEN TV(t, ConvertArith(x.v, t))
    ELSE IF IsFloat(x.ty) /\ IsFloat(t) THEN [x EXCEPT !.ty = t]
    ELSE IF IsArith(x.ty) /\ IsFloat(t) THEN Fp(t, BoolInt(x.v < 0), Abs(x.v), 1)
    ELSE IF IsFloat(x.ty) /\ IsArith(t)
         THEN TV(t, IF t = "bool" THEN BoolInt(x.v # 0) ELSE IntOf(x))
    ELSE IF IsArith(x.ty) /\ t \in ClassTypes THEN TV(t, x.v)
    ELSE NoVal

\* the wrapper instantiations of the model: constexpr_wrapper<x> for every value,
\* and constexpr_wrapper<x, t> with the value type given explicitly for the int values
Wrappers ==
    {Cw(x) : x \in XValues}
        \cup {Wrapper(x, t) : x \in {y \in ArithValues : y.ty = "int" /\ ListInitOK(y, "bool")},
                              t \in {"bool"}}
        \cup {Wrapper(x, t) : x \in {y \in ArithValues : y.ty = "int"},
                              t \in {"long", "NeedsAdl", "NonStruct"}}

\* template <auto X> struct Derived : constexpr_wrapper<X> {} (test.cpp:21-24),
\* and the same over a base whose value type is given explicitly
Deriveds ==
    {Ty("derived", w.x, w.t) : w \in {u \in Wrappers : u.t = u.x.ty \/ u.t = "long"}}

\* struct Shadow : constexpr_wrapper<x> { int value; }
Shadows == {Ty("shadow", x, x.ty) : x \in {y \in ArithValues : y.ty = "int"}}

\* std::integral_constant<t, x> (std::extent in test.cpp:197-200)
Foreigns == {Ty("foreign", x, x.ty) : x \in ArithValues}

\* struct S { static constexpr int value = x; }
Statics == {Ty("static", x, x.ty) : x \in {y \in ArithValues : y.ty = "int"}}

Plains == {Ty("plain", x, x.ty) : x \in ArithValues}

Objects == {Ty("object", x, x.ty) : x \in AdlValues}

OperandTypes ==
    Wrappers \cup Deriveds \cup Shadows \cup Foreigns \cup Statics \cup Plains \cup Objects

\* run-time objects of the classes with a member operator: Test, with its
\* operator== (test.cpp:38-39), and Aaaargh, with its operator->* (test.cpp:158-160)
MemberObjects ==
    {Ty("object", x, x.ty) : x \in {TV("Test", v) : v \in 1 .. MaxVal} \cup {AaaarghValue}}

\* the operands of the binary operators: the operand types, the wrappers of an
\* Aaaargh (test.cpp:239) and of a Test (test.cpp:205, compared with a Test at
\* test.cpp:119), the run-time objects of these two classes, and the wrappers of
\* floating-point values (test.cpp:225-226)
BinaryOperandTypes ==
    OperandTypes \cup {Cw(AaaarghValue)} \cup {Cw(TV("Test", v)) : v \in 1 .. MaxVal} \cup MemberObjects
        \cup {Cw(x) : x \in FloatValues}

IsWrapperDerived(A) == A.kind \in {"wrapper", "derived", "shadow"}

\* the wrapper instantiations among a type and its public bases
WrapperBases(A) == IF IsWrapperDerived(A) THEN {Wrapper(A.x, A.t)} ELSE {}

\* std::same_as<A, This>: a weaker relation than derived_from, blind to base classes
same_as(A, This) == A = This

\* std::derived_from<A, This> for a wrapper instantiation This
derived_from(A, This) == This \in WrapperBases(A)

\* what the qualified name A::value denotes
ValueMember(A) ==
    CASE A.kind \in {"wrapper", "derived", "foreign", "static"} -> "static"
      [] A.kind = "shadow" -> "nonstatic"
      \* NeedsAdl and Test have a data member `value` (test.cpp:28, 101); Aaaargh has none
      [] A.kind = "object" /\ A.t \in {"NeedsAdl", "Test"} -> "nonstatic"
      [] OTHER -> "none"

\* the static member A::value (constexpr_wrapper.hpp:60)
Value(A) ==
    IF ValueMember(A) # "static" THEN NoVal
    ELSE IF IsWrapperDerived(A) THEN ConvertValue(A.x, A.t)
    ELSE A.x

\* a conversion that returns _Xp as it is, without its initialisation as a value_type
ReturnXp(A) == A.x

\* `operator value_type() const { return _Xp; }` (constexpr_wrapper.hpp:62-64)
ConversionResult(A) == ConvertValue(A.x, A.t)

\* the type an operand reaches by its own conversion function, or is
CoreType(A) == IF A.kind = "static" THEN "void" ELSE A.t

\* the run-time value an operand yields as an operand of an underlying operator
RuntimeValue(A) ==
    IF A.kind = "static" THEN NoVal
    ELSE IF IsWrapperDerived(A) THEN ConversionResult(A)
    ELSE A.x

\* std::convertible_to<A, u>: one implicit conversion sequence, which holds at most
\* one user-defined conversion (the operand's conversion function or u's converting
\* constructor, not both)
convertible_to(A, u) ==
    CASE A.kind = "plain" -> IsNumeric(u) \/ u \in ClassTypes
      [] A.kind = "object" -> u = A.t
      [] A.kind = "static" -> FALSE
      [] OTHER -> u = A.t \/ (IsNumeric(A.t) /\ IsNumeric(u))

\* a weaker requirement than the one of the concept: A::value is a static member
HasStaticValue(A) == ValueMember(A) = "static"

\* `requires { typename constexpr_wrapper<_Tp::value>; }` (constexpr_wrapper.hpp:29):
\* _Tp::value is a constant expression of structural type
ValueIsTemplateArgument(A) == ValueMember(A) = "static" /\ IsStructural(Value(A).ty)

\* std::is_member_pointer_v<decltype(&_Tp::value)> (constexpr_wrapper.hpp:27)
is_member_pointer(A) == ValueMember(A) = "nonstatic"

(***************************************************************************)
(* The concepts (constexpr_wrapper.hpp:24-48).                             *)
(***************************************************************************)
\* the concept without its convertible_to<_Tp, _Up> disjunct
constexpr_value_any_target(A, u) == ~is_member_pointer(A) /\ ValueIsTemplateArgument(A)

\* concept constexpr_value<_Tp, _Up>; u = "void" is the default _Up
constexpr_value(A, u) ==
    /\ u = "void" \/ convertible_to(A, u)
    /\ ~is_member_pointer(A)
    /\ ValueIsTemplateArgument(A)

\* constexpr_wrapper<_Tp::value>: the value type is deduced from the value
ValueWrapper(A) == Cw(Value(A))

\* a test that takes every compile-time constant for a wrapper
has_constant_value(A) == ValueIsTemplateArgument(A)

\* concept __any_constexpr_wrapper<_Tp>
any_constexpr_wrapper(A) == ValueIsTemplateArgument(A) /\ derived_from(A, ValueWrapper(A))

\* the left-hand constraint without its tie-break between the operands' friends
lhs_any_operand(A, This) == constexpr_value(A, "void")

\* concept __lhs_constexpr_wrapper<_Tp, _This>
lhs_constexpr_wrapper(A, This) ==
    constexpr_value(A, "void") /\ (derived_from(A, This) \/ ~any_constexpr_wrapper(A))

(***************************************************************************)
(* Binary operators (constexpr_wrapper.hpp:141-244).                       *)
(***************************************************************************)
Result(outcome, cands, val) == [outcome |-> outcome, cands |-> cands, val |-> val]

NoResult == Result("none", 0, NoVal)

\* The wrapper instantiations whose hidden friend `operator op` argument-dependent
\* lookup finds for operands of types A and B (the operands' classes and bases) and
\* whose constraints the operand types satisfy.  Each is a distinct function template
\* with the same signature, so two of them are an ambiguity.
SatisfiedFriends(A, B) ==
    {This \in WrapperBases(A) \cup WrapperBases(B) :
        lhs_constexpr_wrapper(A, This) /\ constexpr_value(B, "void")}

\* the return type constexpr_wrapper<_Ap::value op _Bp::value>; substitution fails
\* when the operand is not a constant expression of structural type
FriendReturn(op, A, B) ==
    LET r == NativeOp(op, Value(A), Value(B))
    IN IF r.wf /\ r.const /\ IsStructural(r.val.ty) THEN r ELSE IllFormed

\* the lookup of a wrapper without a type template parameter (constexpr_t.hpp:45),
\* whose value type is no associated class
AdlFindsOperandOnly(A) == A.t = "NeedsAdl" /\ A.kind = "object"

\* NeedsAdl's friend operator+ is found when NeedsAdl is an associated class of an
\* operand type: the operand is a NeedsAdl, or a wrapper whose type template
\* argument is NeedsAdl (test.cpp:263-265); a class derived from the wrapper has no
\* type template argument
AdlFinds(A) == A.t = "NeedsAdl" /\ A.kind \in {"object", "wrapper"}

\* an implicit conversion sequence from the operand to NeedsAdl exists
ToNeedsAdl(A) == convertible_to(A, "NeedsAdl")

\* a run-time object of class c: the class in which member operators are looked up
\* when the object is the left operand
IsObjectOf(A, c) == A.kind = "object" /\ A.t = c

\* Test::operator== (test.cpp:38-39) is a candidate when an operand is a Test
\* object: as a member of the left operand's class, or, for a Test on the right,
\* as the reversed candidate of C++20 (a != b is rewritten to !(a == b) likewise).
\* The other operand converts to the parameter `const Test&`.
TestEqCandidate(op, A, B) ==
    /\ op \in {"==", "!="}
    /\ IsObjectOf(A, "Test") \/ IsObjectOf(B, "Test")
    /\ convertible_to(A, "Test") /\ convertible_to(B, "Test")

\* Aaaargh::operator->*(int) (test.cpp:158-160) is a candidate when the left
\* operand is an Aaaargh object; ->* has no reversed candidate.  The right operand
\* converts to the parameter of type int.
ArrowStarCandidate(op, A, B) ==
    op = "->*" /\ IsObjectOf(A, "Aaaargh") /\ convertible_to(B, "int")

\* The operator selected when no wrapper operator is viable: a built-in operator, or
\* the value type's own operator, on operands converted by `operator value_type`
\* (constexpr_wrapper.hpp:62-64).  A member operator of the value type is looked up
\* in the class of the left operand only (for ==, of either operand): it is no
\* candidate when the operand of its class is a wrapper.
Underlying(op, A, B) ==
    IF IsArith(CoreType(A)) /\ IsArith(CoreType(B))
    THEN ArithOp(op, RuntimeValue(A), RuntimeValue(B))
    ELSE IF IsNumeric(CoreType(A)) /\ IsNumeric(CoreType(B))
    THEN FloatOp(op, RuntimeValue(A), RuntimeValue(B))
    ELSE IF /\ op = "+"
            /\ AdlFinds(A) \/ AdlFinds(B)
            /\ ToNeedsAdl(A) /\ ToNeedsAdl(B)
         THEN AdlPlus(RuntimeValue(A), RuntimeValue(B))
    ELSE IF TestEqCandidate(op, A, B) THEN TestEq(op, RuntimeValue(A), RuntimeValue(B))
    ELSE IF ArrowStarCandidate(op, A, B)
         THEN MemberArrowStar(RuntimeValue(A), ConvertValue(RuntimeValue(B), "int"))
    ELSE IllFormed

\* The built-in comma operator applies to operands of every type and yields its
\* right operand: a plain value for a run-time operand, the operand object itself
\* (of type B, outcome "operand") otherwise.
BuiltinComma(cands, B) ==
    IF B.kind \in {"plain", "object"} THEN Result("plain", cands, B.x)
    ELSE Result("operand", cands, NoVal)

\* overload resolution of `a op b` for operands of types A and B
ResolveBinary(op, A, B) ==
    LET friends == SatisfiedFriends(A, B)
        ret == FriendReturn(op, A, B)
        viable == IF ret.wf THEN friends ELSE {}
        under == Underlying(op, A, B)
    IN IF Cardinality(viable) = 1 THEN Result("wrapper", Cardinality(friends), ret.val)
       ELSE IF Cardinality(viable) > 1 THEN Result("ambiguous", Cardinality(friends), NoVal)
       ELSE IF op = "," THEN BuiltinComma(Cardinality(friends), B)
       ELSE IF ~under.wf THEN Result("none", Cardinality(friends), NoVal)
       ELSE IF ~under.const THEN Result("undefined", Cardinality(friends), under.val)
       ELSE Result("plain", Cardinality(friends), under.val)

(***************************************************************************)
(* Call and subscript (constexpr_wrapper.hpp:309-350).                     *)
(***************************************************************************)
\* the wrapped values of the wrappers that are called or subscripted: Test and
\* Maker objects, and int values, which are neither callable nor subscriptable
CalleeValues ==
    {TV(ty, v) : ty \in CallableTypes, v \in 1 .. MaxVal} \cup {TV("int", v) : v \in 1 .. MaxVal}

ArgValues == {TV("int", v) : v \in 0 .. MaxVal}

\* the types of the arguments of a call or subscript
ArgTypes ==
    {Ty(kind, x, x.ty) : kind \in {"wrapper", "derived", "foreign", "static", "plain"},
                         x \in ArgValues}

ArgLists == UNION {[1 .. n -> ArgTypes] : n \in 0 .. MaxArgs}

\* (GCC 12 also accepts w[a, b] with no viable two-argument operator[] by reading
\* the arguments as one comma expression, a deprecated compatibility reading that
\* C++23 does not have; the model follows C++23.)
\* Test::operator[](auto... args) returns (value + ... + args) (test.cpp:34-36)
RECURSIVE FoldPlus(_, _, _)
FoldPlus(acc, vals, i) ==
    IF i > Len(vals) \/ ~acc.wf THEN acc
    ELSE FoldPlus(NativeOp("+", acc.val, vals[i]), vals, i + 1)

AllArith(vals) == \A i \in 1 .. Len(vals) : IsArith(vals[i].ty)

\* value(vals...) on the unwrapped callee v
\*   Test::operator()(int a, int b) returns a + b + value (test.cpp:30-32)
\*   Maker::operator()(int a) returns NonStruct(a + value), Maker::operator()()
\*   returns NonStruct(value)
InvokeCall(v, vals) ==
    CASE v.ty = "Test" /\ Len(vals) = 2 /\ AllArith(vals) ->
            Eval(TRUE, TRUE, TV("int", vals[1].v + vals[2].v + v.v))
      [] v.ty = "Maker" /\ Len(vals) = 1 /\ AllArith(vals) ->
            Eval(TRUE, TRUE, TV("NonStruct", vals[1].v + v.v))
      [] v.ty = "Maker" /\ Len(vals) = 0 -> Eval(TRUE, TRUE, TV("NonStruct", v.v))
      [] OTHER -> IllFormed

\* value[vals...] on the unwrapped callee v; Maker::operator[] is like its operator()
InvokeSubscript(v, vals) ==
    CASE v.ty = "Test" -> FoldPlus(Eval(TRUE, TRUE, TV("int", v.v)), vals, 1)
      [] v.ty = "Maker" /\ Len(vals) = 1 /\ AllArith(vals) ->
            Eval(TRUE, TRUE, TV("NonStruct", vals[1].v + v.v))
      [] v.ty = "Maker" /\ Len(vals) = 0 -> Eval(TRUE, TRUE, TV("NonStruct", v.v))
      [] OTHER -> IllFormed

Invoke(form, v, vals) == IF form = "call" THEN InvokeCall(v, vals) ELSE InvokeSubscript(v, vals)

\* _Args::value...
ArgValuesOf(args) == [i \in 1 .. Len(args) |-> Value(args[i])]

\* the arguments as the callee receives them from std::forward<_Args>(__args)...
ArgObjectsOf(args) == [i \in 1 .. Len(args) |-> RuntimeValue(args[i])]

AllConstexpr(args) == \A i \in 1 .. Len(args) : constexpr_value(args[i], "void")

\* template <constexpr_value... _Args> operator()(_Args...) and operator[](_Args...)
\* (constexpr_wrapper.hpp:310-314, 329-332): viable when every argument satisfies
\* constexpr_value and constexpr_wrapper<value(_Args::value...)> is a type
ConstantOverload(form, W, args) ==
    LET r == Invoke(form, Value(W), ArgValuesOf(args))
    IN IF AllConstexpr(args) /\ r.wf /\ r.const /\ IsStructural(r.val.ty) THEN r ELSE IllFormed

\* Whether overload resolution on the unwrapped callee v finds an operator for
\* arguments vals, which is what decltype(value(args...)) and
\* decltype(value[args...]) ask for.  Test::operator[](auto... args) has the
\* declared return type int and takes arguments of every type and number
\* (test.cpp:34-36): its body is not looked at.
Accepts(form, v, vals) ==
    IF form = "subscript" /\ v.ty = "Test" THEN TRUE ELSE Invoke(form, v, vals).wf

\* an overload whose return type is declared: wf = it is viable, body = the
\* instantiation of its body is well-formed, val = what it returns
Selected(viable, body, val) == [wf |-> viable, body |-> body, val |-> val]

NotViable == Selected(FALSE, FALSE, NoVal)

\* the run-time overload without its requires-clause
UnconstrainedOverload(form, W, args) ==
    LET r == Invoke(form, Value(W), ArgObjectsOf(args))
    IN IF Accepts(form, Value(W), ArgObjectsOf(args))
       THEN Selected(TRUE, r.wf, r.val) ELSE NotViable

\* template <typename... _Args> requires (not constexpr_value<...> || ...)
\* (constexpr_wrapper.hpp:316-320, 334-338): viable when some argument does not
\* satisfy constexpr_value and decltype(value(args...)) is a type.  It returns
\* value(args...): when that is ill-formed inside the callee, the error arises in
\* the body, after the overload has been selected.
RuntimeOverload(form, W, args) ==
    LET r == Invoke(form, Value(W), ArgObjectsOf(args))
    IN IF ~AllConstexpr(args) /\ Accepts(form, Value(W), ArgObjectsOf(args))
       THEN Selected(TRUE, r.wf, r.val) ELSE NotViable

\* operator()() requires (not requires { value(); }) { return value; }
\* (constexpr_wrapper.hpp:322-325); operator[] has no such overload
RawValueOverload(form, W, args) ==
    IF form = "call" /\ Len(args) = 0 /\ ~InvokeCall(Value(W), <<>>).wf
    THEN Eval(TRUE, TRUE, Value(W))
    ELSE IllFormed

\* overload resolution of w(args...) and w[args...] for a wrapper type W
ResolveInvoke(form, W, args) ==
    LET c == ConstantOverload(form, W, args)
        r == RuntimeOverload(form, W, args)
        z == RawValueOverload(form, W, args)
        n == BoolInt(c.wf) + BoolInt(r.wf) + BoolInt(z.wf)
    IN IF n > 1 THEN Result("ambiguous", n, NoVal)
       ELSE IF c.wf THEN Result("wrapper", n, c.val)
       ELSE IF r.wf /\ r.body THEN Result("plain", n, r.val)
       ELSE IF r.wf THEN Result("error", n, NoVal)
       ELSE IF z.wf THEN Result("plain", n, z.val)
       ELSE Result("none", n, NoVal)

(***************************************************************************)
(* The state machine: client code is translated one expression at a time.  *)
(***************************************************************************)
Expr(kind, op, a, b, args, u) ==
    [kind |-> kind, op |-> op, a |-> a, b |-> b, args |-> args, u |-> u]

Idle == Expr("idle", "", NoType, NoType, <<>>, "void")

\* a declared object: its type and the value it holds
Object(type, value) == [type |-> type, value |-> value]

NoObject == Object(NoType, NoVal)

Init ==
    /\ expr = Idle
    /\ res = NoResult
    /\ obj = NoObject

\* a op b
Binary ==
    /\ expr.kind = "idle"
    /\ \E op \in BinaryOps, A \in BinaryOperandTypes, B \in BinaryOperandTypes :
          /\ expr' = Expr("binary", op, A, B, <<>>, "void")
          /\ res' = ResolveBinary(op, A, B)
    /\ UNCHANGED obj

\* w(args...)
Call ==
    /\ expr.kind = "idle"
    /\ \E v \in CalleeValues, args \in ArgLists :
          /\ expr' = Expr("call", "()", Cw(v), NoType, args, "void")
          /\ res' = ResolveInvoke("call", Cw(v), args)
    /\ UNCHANGED obj

\* w[args...]
Subscript ==
    /\ expr.kind = "idle"
    /\ \E v \in CalleeValues, args \in ArgLists :
          /\ expr' = Expr("subscript", "[]", Cw(v), NoType, args, "void")
          /\ res' = ResolveInvoke("subscript", Cw(v), args)
    /\ UNCHANGED obj

\* the types a constexpr_value<C, U> is asked for
TargetTypes == {"void"} \cup ArithTypes \cup ClassTypes

\* the value of the concept constexpr_value<C, U> for a type C and a target type U
Concept ==
    /\ expr.kind = "idle"
    /\ \E C \in OperandTypes, u \in TargetTypes :
          /\ expr' = Expr("concept", "constexpr_value", C, NoType, <<>>, u)
          /\ res' = Result(IF constexpr_value(C, u) THEN "true" ELSE "false", 0, NoVal)
    /\ UNCHANGED obj

\* W::value, or w.value through an instance: both name the static member
ReadValue ==
    /\ expr.kind = "idle"
    /\ \E W \in Wrappers, form \in {"W::value", "w.value"} :
          /\ expr' = Expr("value", form, W, NoType, <<>>, "void")
          /\ res' = Result("plain", 0, Value(W))
    /\ UNCHANGED obj

\* the implicit conversion of a wrapper object to value_type
Convert ==
    /\ expr.kind = "idle"
    /\ \E W \in Wrappers :
          /\ expr' = Expr("convert", "operator value_type", W, NoType, <<>>, "void")
          /\ res' = Result("plain", 0, ConversionResult(W))
    /\ UNCHANGED obj

(***************************************************************************)
(* Type identity (constexpr_wrapper.hpp:18-19, 53-60; constexpr_t.hpp:44-52).*)
(***************************************************************************)
\* constexpr_t<x>: its value_type is remove_const_t<decltype(_Xp)>
ConstexprT(x) == Ty("constexpr_t", x, x.ty)

ConstexprTs == {ConstexprT(x) : x \in XValues}

\* the two class templates with their instantiations
Templates == {Wrappers, ConstexprTs}

\* a coarser relation than type identity: the same template, value and value type
SameValue(A, B) == A.kind = B.kind /\ ConvertValue(A.x, A.t) = ConvertValue(B.x, B.t)

\* Two template-ids name the same type when they name the same template and their
\* template arguments are equivalent: for `auto _Xp` the same type and value, for
\* the value type the same type.
SameType(A, B) == A.kind = B.kind /\ A.x.ty = B.x.ty /\ A.x.v = B.x.v /\ A.t = B.t

\* std::is_same_v<A, B> for two instantiations of one of the templates
Identity ==
    /\ expr.kind = "idle"
    /\ \E Insts \in Templates : \E A \in Insts, B \in Insts :
          /\ expr' = Expr("identity", "is_same", A, B, <<>>, "void")
          /\ res' = Result(IF SameType(A, B) THEN "true" ELSE "false", 0, NoVal)
    /\ UNCHANGED obj

(***************************************************************************)
(* Unary operators (constexpr_wrapper.hpp:91-139).                         *)
(***************************************************************************)
UnaryOps == {"+", "-", "~", "!", "&", "*", "++pre", "post++", "--pre", "post--"}

IncDecOps == {"++pre", "post++", "--pre", "post--"}

\* a pointer to an object
Pointer(target) == TV("pointer", target)

\* `op y` for a template parameter y of value x.  A template parameter of scalar
\* type is a prvalue: it has no address and cannot be incremented, and an
\* arithmetic value cannot be dereferenced.  A template parameter of class type is
\* a const lvalue: only const-qualified operators of the class apply
\* (Aaaargh, test.cpp:142-156), and its address is not a constant that a template
\* argument may hold.
NativeUnary(op, x) ==
    IF IsArith(x.ty)
    THEN CASE op = "+" -> Eval(TRUE, TRUE, TV(Promote(x.ty), x.v))
           [] op = "-" -> Eval(TRUE, TRUE, TV(Promote(x.ty), 0 - x.v))
           [] op = "~" -> Eval(TRUE, TRUE, TV(Promote(x.ty), 0 - x.v - 1))
           [] op = "!" -> Eval(TRUE, TRUE, TV("bool", BoolInt(x.v = 0)))
           [] OTHER -> IllFormed
    \* a floating-point value has no operator~; negation changes the sign bit
    ELSE IF IsFloat(x.ty)
    THEN CASE op = "+" -> Eval(TRUE, TRUE, x)
           [] op = "-" -> Eval(TRUE, TRUE, [x EXCEPT !.sign = 1 - x.sign])
           [] op = "!" -> Eval(TRUE, TRUE, TV("bool", BoolInt(x.v = 0)))
           [] OTHER -> IllFormed
    ELSE IF x.ty = "Aaaargh"
    THEN CASE op = "++pre" -> Eval(TRUE, TRUE, TV("int", 1))
           [] op = "post++" -> Eval(TRUE, TRUE, TV("int", 2))
           [] op = "--pre" -> Eval(TRUE, TRUE, TV("int", 3))
           [] op = "post--" -> Eval(TRUE, TRUE, TV("int", 4))
           [] op = "&" -> Eval(TRUE, FALSE, Pointer(x))
           [] OTHER -> IllFormed
    ELSE IF op = "&" THEN Eval(TRUE, FALSE, Pointer(x))
    ELSE IllFormed

\* an operand that is the wrapper's `value` (of the value type) instead of _Xp
UnaryOperandValue(W) == ConvertValue(W.x, W.t)

\* `template <auto _Yp = _Xp>`: the unary operators apply to the template argument
UnaryOperand(W) == W.x

\* Overload resolution of `op w` for a wrapper type W.  The member template is
\* viable when constexpr_wrapper<op _Yp> is a type.  Otherwise a built-in operator
\* remains: address-of, which applies to every object and yields the address of
\* the wrapper, and the arithmetic operators on the converted operand.
ResolveUnary(op, W) ==
    LET r == NativeUnary(op, UnaryOperand(W))
        b == NativeUnary(op, ConversionResult(W))
    IN IF r.wf /\ r.const /\ IsStructural(r.val.ty) THEN Result("wrapper", 1, r.val)
       ELSE IF op = "&" THEN Result("plain", 0, Pointer(W))
       ELSE IF op \in {"+", "-", "~", "!"} /\ IsArith(W.t) /\ b.wf
            THEN Result(IF b.const THEN "plain" ELSE "undefined", 0, b.val)
       ELSE NoResult

\* the wrapper types that unary operators are applied to: the wrappers of the
\* binary operators, of an Aaaargh, and of floating-point values (test.cpp:16)
UnaryOperandTypes == Wrappers \cup {Cw(AaaarghValue)} \cup {Cw(x) : x \in FloatValues}

\* op w
Unary ==
    /\ expr.kind = "idle"
    /\ \E op \in UnaryOps, W \in UnaryOperandTypes :
          /\ expr' = Expr("unary", op, W, NoType, <<>>, "void")
          /\ res' = ResolveUnary(op, W)
    /\ UNCHANGED obj

(***************************************************************************)
(* Assignment-like operators on a declared object                          *)
(* (constexpr_wrapper.hpp:121-139, 246-299; test.cpp:233-244).             *)
(***************************************************************************)
AssignOps == {"=", "+=", "-=", "*=", "/=", "%=", "&=", "|=", "^=", "<<=", ">>="}

SelfAsgValues == {TV("SelfAsg", v) : v \in 1 .. MaxVal}

\* `x op y` for a constant x of a value type: the operator must be callable on a
\* const object.  Aaaargh: test.cpp:130-140; arithmetic constants cannot be
\* assigned to.
NativeAssign(op, x, y) ==
    IF x.ty = "Aaaargh" /\ IsArith(y.ty)
    THEN CASE op = "=" -> Eval(TRUE, TRUE, TV("int", y.v))
           [] op = "+=" -> Eval(TRUE, TRUE, TV("int", y.v + 1))
           [] op = "-=" -> Eval(TRUE, TRUE, TV("int", y.v - 1))
           [] OTHER -> IllFormed
    ELSE IF x.ty = "SelfAsg" /\ y.ty = "SelfAsg" /\ op = "=" THEN Eval(TRUE, TRUE, TV("int", y.v))
    ELSE IllFormed

\* the wrapper types of the declared objects
Receivers == {Cw(AaaarghValue), Cw(TV("int", 1)), Cw(TV("SelfAsg", 1))}

\* the right-hand operands of the assignment-like operators
AssignOperands ==
    {Ty(kind, x, x.ty) : kind \in {"wrapper", "foreign", "plain"}, x \in ArgValues}
        \cup {Cw(AaaarghValue)} \cup {Cw(x) : x \in SelfAsgValues}

\* template <constexpr_value _Ap> constexpr_wrapper<(_Xp = _Ap::value)> operator=(_Ap) const
\* (constexpr_wrapper.hpp:246-249)
AssignMember(W, B) ==
    LET r == NativeAssign("=", W.x, Value(B))
    IN IF constexpr_value(B, "void") /\ r.wf /\ r.const /\ IsStructural(r.val.ty)
       THEN r ELSE IllFormed

\* the implicitly declared copy assignment operator of constexpr_wrapper
\* (constexpr_wrapper.hpp:53-54) takes an operand of the receiver's own type
CopyAssignViable(W, B) == B.kind = "wrapper" /\ SameType(W, B)

\* Overload resolution of `w = b` for a non-const object w of wrapper type W.  The
\* copy assignment operator is no template and binds the non-const receiver
\* without a qualification adjustment, so it is selected when it is viable; it
\* returns the receiver by reference.
ResolveAssign(W, B) ==
    LET m == AssignMember(W, B)
        n == BoolInt(m.wf) + BoolInt(CopyAssignViable(W, B))
    IN IF CopyAssignViable(W, B) THEN Result("self", n, NoVal)
       ELSE IF m.wf THEN Result("wrapper", n, m.val)
       ELSE Result("none", n, NoVal)

\* the return type constexpr_wrapper<(_Ap::value op= _Bp::value)>
\* (constexpr_wrapper.hpp:251-299)
CompoundReturn(op, A, B) ==
    LET r == NativeAssign(op, Value(A), Value(B))
    IN IF r.wf /\ r.const /\ IsStructural(r.val.ty) THEN r ELSE IllFormed

\* Overload resolution of `w op= b`: the hidden friends as for the binary
\* operators; no built-in compound assignment applies to a converted operand,
\* which is no lvalue.
ResolveCompound(op, A, B) ==
    LET friends == SatisfiedFriends(A, B)
        ret == CompoundReturn(op, A, B)
        viable == IF ret.wf THEN friends ELSE {}
    IN IF Cardinality(viable) = 1 THEN Result("wrapper", Cardinality(friends), ret.val)
       ELSE IF Cardinality(viable) > 1 THEN Result("ambiguous", Cardinality(friends), NoVal)
       ELSE Result("none", Cardinality(friends), NoVal)

ResolveMutating(op, W, B) ==
    IF op \in IncDecOps THEN ResolveUnary(op, W)
    ELSE IF op = "=" THEN ResolveAssign(W, B)
    ELSE ResolveCompound(op, W, B)

\* auto cca = std::cw<x>; (test.cpp:233-234)
Declare ==
    /\ expr.kind = "idle"
    /\ obj = NoObject
    /\ \E W \in Receivers :
          /\ expr' = Expr("declare", "auto", W, NoType, <<>>, "void")
          /\ obj' = Object(W, Value(W))
    /\ res' = NoResult

\* an increment or decrement of the declared object.  The operators are const
\* member functions: they do not assign to the object.
IncDec ==
    /\ expr.kind = "idle"
    /\ obj # NoObject
    /\ \E op \in IncDecOps :
          /\ expr' = Expr("mutate", op, obj.type, NoType, <<>>, "void")
          /\ res' = ResolveMutating(op, obj.type, NoType)
    /\ UNCHANGED obj

\* an assignment or compound assignment to the declared object.  operator= is a
\* const member function and the compound assignments take their operands by
\* value; the copy assignment operator copies an object without data members.
Assign ==
    /\ expr.kind = "idle"
    /\ obj # NoObject
    /\ \E op \in AssignOps, B \in AssignOperands :
          /\ expr' = Expr("mutate", op, obj.type, B, <<>>, "void")
          /\ res' = ResolveMutating(op, obj.type, B)
    /\ UNCHANGED obj

(***************************************************************************)
(* Member access (constexpr_wrapper.hpp:77-89, constexpr_t.hpp:69-82).     *)
(***************************************************************************)
PtValues == {TV("Pt", v) : v \in 0 .. MaxVal}

HandleValues == {TV("Handle", v) : v \in 0 .. MaxVal}

\* the values whose wrappers operator-> is applied to
ArrowValues == PtValues \cup HandleValues \cup {AaaarghValue} \cup ArgValues

\* a value type without operator->
NoArrow(x) == FALSE

\* requires { _Xp.operator->(); } (constexpr_wrapper.hpp:85)
HasArrow(x) == x.ty = "Handle"

\* x.operator->(): the Handle of the Pt object with m = v points to that object
OwnArrow(x) == Pointer(TV("Pt", x.v))

\* constexpr_wrapper::operator-> (constexpr_wrapper.hpp:82-89).  Without an
\* operator-> of the value it returns std::addressof(_Xp): the address of the
\* template parameter object for a class type; for a scalar _Xp is a prvalue and
\* the call of std::addressof is an error in the body of the function.
WrapperArrow(x) ==
    IF HasArrow(x) THEN Result("pointer", 1, OwnArrow(x))
    ELSE IF IsArith(x.ty) THEN Result("error", 1, NoVal)
    ELSE Result("pointer", 1, Pointer(x))

\* constexpr_t::operator-> (constexpr_t.hpp:78-81): a template whose return type
\* is decltype(_Yp.operator->())
ConstexprTArrow(x) ==
    IF HasArrow(x) THEN Result("pointer", 1, OwnArrow(x)) ELSE NoResult

ResolveArrow(A) == IF A.kind = "constexpr_t" THEN ConstexprTArrow(A.x) ELSE WrapperArrow(A.x)

\* w.operator->(), as in w->member
Arrow ==
    /\ expr.kind = "idle"
    /\ \E x \in ArrowValues : \E A \in {Cw(x), ConstexprT(x)} :
          /\ expr' = Expr("arrow", "->", A, NoType, <<>>, "void")
          /\ res' = ResolveArrow(A)
    /\ UNCHANGED obj

(***************************************************************************)
(* Integer literals (constexpr_wrapper.hpp:360-472).  A literal operator   *)
(* template receives the characters of the literal without its suffix.     *)
(* Characters are strings of length one.  An unsigned long long is four    *)
(* limbs of 16 bits, least significant first, and its arithmetic is        *)
(* modulo 2^64.  The target has a long of 64 bits (LP64).                  *)
(***************************************************************************)
MaxLitLen == 4

\* the character codes of the execution character set
Ord ==
    ("'" :> 39) @@ ("0" :> 48) @@ ("1" :> 49) @@ ("2" :> 50) @@ ("3" :> 51) @@
    ("4" :> 52) @@ ("5" :> 53) @@ ("6" :> 54) @@ ("7" :> 55) @@ ("8" :> 56) @@
    ("9" :> 57) @@ ("A" :> 65) @@ ("B" :> 66) @@ ("C" :> 67) @@ ("D" :> 68) @@
    ("E" :> 69) @@ ("F" :> 70) @@ ("X" :> 88) @@ ("a" :> 97) @@ ("b" :> 98) @@
    ("c" :> 99) @@ ("d" :> 100) @@ ("e" :> 101) @@ ("f" :> 102) @@
    ("x" :> 120)

LimbBase == 2 ^ 16

\* an unsigned long long of a value below 2^16
ULL(n) == <<n, 0, 0, 0>>

\* std::numeric_limits<unsigned long long>::max() (constexpr_wrapper.hpp:406)
ULLMax == <<LimbBase - 1, LimbBase - 1, LimbBase - 1, LimbBase - 1>>

\* x > y
Greater(x, y) ==
    IF x[4] # y[4] THEN x[4] > y[4]
    ELSE IF x[3] # y[3] THEN x[3] > y[3]
    ELSE IF x[2] # y[2] THEN x[2] > y[2]
    ELSE x[1] > y[1]

\* x *= b on an unsigned long long: the carry out of the last limb is lost
MulSmall(x, b) ==
    LET p1 == x[1] * b
        p2 == x[2] * b + p1 \div LimbBase
        p3 == x[3] * b + p2 \div LimbBase
        p4 == x[4] * b + p3 \div LimbBase
    IN <<p1 % LimbBase, p2 % LimbBase, p3 % LimbBase, p4 % LimbBase>>

\* x += d on an unsigned long long
AddSmall(x, d) ==
    LET s1 == x[1] + d
        s2 == x[2] + s1 \div LimbBase
        s3 == x[3] + s2 \div LimbBase
        s4 == x[4] + s3 \div LimbBase
    IN <<s1 % LimbBase, s2 % LimbBase, s3 % LimbBase, s4 % LimbBase>>

\* x - d on an unsigned long long
SubSmall(x, d) ==
    LET d1 == x[1] - d
        d2 == x[2] - (IF d1 < 0 THEN 1 ELSE 0)
        d3 == x[3] - (IF d2 < 0 THEN 1 ELSE 0)
        d4 == x[4] - (IF d3 < 0 THEN 1 ELSE 0)
    IN <<d1 % LimbBase, d2 % LimbBase, d3 % LimbBase, d4 % LimbBase>>

\* x / b on an unsigned long long, by long division from the last limb
DivSmall(x, b) ==
    LET n4 == x[4]
        n3 == (n4 % b) * LimbBase + x[3]
        n2 == (n3 % b) * LimbBase + x[2]
        n1 == (n2 % b) * LimbBase + x[1]
    IN <<n1 \div b, n2 \div b, n3 \div b, n4 \div b>>

\* __cw_prepare_array (constexpr_wrapper.hpp:363-374): the characters that are no
\* digit separator, in their order
RECURSIVE cw_prepare_array(_)
cw_prepare_array(chars) ==
    IF chars = <<>> THEN <<>>
    ELSE IF Head(chars) # "'" THEN <<Head(chars)>> \o cw_prepare_array(Tail(chars))
    ELSE cw_prepare_array(Tail(chars))

\* __base (constexpr_wrapper.hpp:381-384)
base(arr) ==
    IF arr[1] = "0" /\ 2 < Len(arr)
    THEN IF arr[2] = "x" \/ arr[2] = "X" THEN 16
         ELSE IF arr[2] = "b" THEN 2 ELSE 8
    ELSE 10

\* __offset (constexpr_wrapper.hpp:385)
offset(b) == IF b = 10 THEN 0 ELSE IF b = 8 THEN 1 ELSE 2

\* __end (constexpr_wrapper.hpp:386), as the index of the last digit
end(arr, b) == Len(arr) - (IF b = 16 THEN 1 ELSE 0)

\* the predicate of __valid_chars (constexpr_wrapper.hpp:387-393)
valid_char(c, b) ==
    IF b = 16
    THEN \/ Ord[c] >= Ord["a"] /\ Ord[c] <= Ord["f"]
         \/ Ord[c] >= Ord["A"] /\ Ord[c] <= Ord["F"]
         \/ Ord[c] >= Ord["0"] /\ Ord[c] <= Ord["9"]
    ELSE Ord[c] >= Ord["0"] /\ Ord[c] < Ord["0"] + b

\* __valid_chars (constexpr_wrapper.hpp:387-393)
valid_chars(arr, b) == \A i \in offset(b) + 1 .. end(arr, b) : valid_char(arr[i], b)

\* __nextdigit (constexpr_wrapper.hpp:411-418)
nextdigit(c, b) ==
    IF b = 16 /\ Ord[c] >= Ord["a"] THEN Ord[c] - Ord["a"] + 10
    ELSE IF b = 16 /\ Ord[c] >= Ord["A"] THEN Ord[c] - Ord["A"] + 10
    ELSE Ord[c] - Ord["0"]

\* `if (__x > __max / __base) return 0ull;` (constexpr_wrapper.hpp:419-420)
MulOverflows(x, b) == Greater(x, DivSmall(ULLMax, b))

\* `if (__x > __max - __nextdigit) return 0ull;` (constexpr_wrapper.hpp:422-423)
AddOverflows(x, d) == Greater(x, SubSmall(ULLMax, d))

\* the loop of the lambda that initialises __x (constexpr_wrapper.hpp:404-426),
\* from the digit at index i with the value x so far
RECURSIVE Accumulate(_, _, _, _)
Accumulate(arr, b, i, x) ==
    IF i > end(arr, b) THEN x
    ELSE IF MulOverflows(x, b) THEN ULL(0)
    ELSE LET y == MulSmall(x, b)
             d == nextdigit(arr[i], b)
         IN IF AddOverflows(y, d) THEN ULL(0)
            ELSE Accumulate(arr, b, i + 1, AddSmall(y, d))

\* std::numeric_limits<T>::max() of the signed types (constexpr_wrapper.hpp:428-436)
numeric_limits_max(ty) ==
    CASE ty = "signed char" -> <<127, 0, 0, 0>>
      [] ty = "short" -> <<32767, 0, 0, 0>>
      [] ty = "int" -> <<65535, 32767, 0, 0>>
      [] ty = "long" -> <<65535, 65535, 65535, 32767>>
      [] ty = "long long" -> <<65535, 65535, 65535, 32767>>

\* the signed types in the order of the if-constexpr chain
\* (constexpr_wrapper.hpp:428-437)
Ladder == <<"signed char", "short", "int", "long", "long long">>

\* the return type of __cw_parse for the value x (constexpr_wrapper.hpp:428-439)
RECURSIVE LadderType(_, _)
LadderType(x, i) ==
    IF i > Len(Ladder) THEN "unsigned long long"
    ELSE IF ~Greater(x, numeric_limits_max(Ladder[i])) THEN Ladder[i]
    ELSE LadderType(x, i + 1)

Parsed(status, ty, x) == [status |-> status, ty |-> ty, x |-> x]

\* the storage duration of __arr (constexpr_wrapper.hpp:380): a variable of block
\* scope that is not declared static
arr_storage == "automatic"

\* `constexpr auto __end = __arr.end() - ...` (constexpr_wrapper.hpp:386): the
\* iterator is a pointer into __arr, and a pointer is a constant expression only
\* when it points into an object of static storage duration
end_is_constant == arr_storage = "static"

\* `__arr == std::array {c}` (constexpr_wrapper.hpp:397-401): operator== of
\* std::array takes two arrays of one extent, so the comparison of an array of
\* another length with an array of length n is ill-formed
array_equal_defined(arr, n) == Len(arr) = n

\* __cw_parse (constexpr_wrapper.hpp:376-440): the typed value it returns, or the
\* first error of its instantiation.  The statements that follow the chain of
\* special cases (lines 397-402) belong to no else branch: they are instantiated
\* for the literals 0, 1 and 2 as well, the static_assert of line 427 included.
cw_parse(chars) ==
    LET arr == cw_prepare_array(chars)
        b == base(arr)
        x == Accumulate(arr, b, offset(b) + 1, ULL(0))
    IN IF ~end_is_constant THEN Parsed("not a constant expression", "void", ULL(0))
       ELSE IF ~valid_chars(arr, b) THEN Parsed("invalid characters", "void", ULL(0))
       ELSE IF ~array_equal_defined(arr, 1) THEN Parsed("no match for operator==", "void", ULL(0))
       ELSE IF x = ULL(0) THEN Parsed("out of range", "void", x)
       ELSE IF arr \in {<<"1">>, <<"2">>}
            THEN Parsed("ok", "signed char", ULL(Ord[arr[1]] - Ord["0"]))
       ELSE Parsed("ok", LadderType(x, 1), x)

\* std::cw<__cw_parse<_Chars...>()> (constexpr_wrapper.hpp:449)
LiteralResult(p) ==
    IF p.status = "ok" THEN Result("wrapper", 1, TV(p.ty, p.x))
    ELSE Result(p.status, 1, TV(p.ty, p.x))

\* the requires-clause of operator""w and operator""W
\* (constexpr_wrapper.hpp:456-460, 465-469)
HexSuffixed(chars, c) ==
    /\ Len(chars) > 2
    /\ chars[1] = "0"
    /\ (chars[2] = "x" \/ chars[2] = "X")
    /\ chars[Len(chars)] = c

\* the characters that the short literals are made of
Alphabet == {"0", "1", "2", "8", "9", "f", "F", "x", "X", "b", "B", "c", "C", "'"}

DigitChars == {"0", "1", "2", "8", "9"}

\* every character sequence up to MaxLitLen that begins with a digit
ShortLiterals ==
    {l \in UNION {[1 .. n -> Alphabet] : n \in 1 .. MaxLitLen} : l[1] \in DigitChars}

\* the literals of test.cpp:271-284 (the c of a hexadecimal literal with the
\* suffix cw is the last character that the operator w receives)
TestLiterals ==
    {<<"1", "2", "7">>, <<"1", "2", "8">>, <<"6", "0", "'", "0", "0", "0">>,
     <<"2", "'", "0", "0", "0", "'", "0", "0", "0", "'", "0", "0", "0">>,
     <<"4", "'", "0", "0", "0", "'", "0", "0", "0", "'", "0", "0", "0">>,
     <<"9", "2", "2", "3", "3", "7", "2", "0", "3", "6", "8", "5", "4", "7", "7", "5", "8", "0", "7">>,
     <<"9", "2", "2", "3", "3", "7", "2", "0", "3", "6", "8", "5", "4", "7", "7", "5", "8", "0", "8">>,
     <<"0", "x", "F", "F", "F", "F", "c">>,
     <<"0", "X", "f", "f", "f", "f", "c">>,
     <<"0", "X", "f", "f", "f", "f", "C">>, <<"0", "b", "1", "1", "0", "1">>}

\* literals at the limits of the types of the ladder, in every base
BoundaryLiterals ==
    {<<"3", "2", "7", "6", "7">>, <<"3", "2", "7", "6", "8">>,
     <<"2", "1", "4", "7", "4", "8", "3", "6", "4", "7">>,
     <<"2", "1", "4", "7", "4", "8", "3", "6", "4", "8">>,
     <<"1", "8", "4", "4", "6", "7", "4", "4", "0", "7", "3", "7", "0", "9", "5", "5", "1", "6", "1", "5">>,
     <<"1", "8", "4", "4", "6", "7", "4", "4", "0", "7", "3", "7", "0", "9", "5", "5", "1", "6", "1", "6">>,
     <<"1", "8", "4", "4", "6", "7", "4", "4", "0", "7", "3", "7", "0", "9", "5", "5", "1", "6", "1", "9">>,
     <<"1", "8", "4", "4", "6", "7", "4", "4", "0", "7", "3", "7", "0", "9", "5", "5", "1", "6", "2", "0">>,
     <<"9", "9", "9", "9", "9", "9", "9", "9", "9", "9", "9", "9", "9", "9", "9", "9", "9", "9", "9", "9">>,
     <<"1", "8", "4", "4", "6", "7", "4", "4", "0", "7", "3", "7", "0", "9", "5", "5", "1", "6", "1", "5", "0">>,
     <<"0", "x", "7", "F", "c">>, <<"0", "x", "8", "0", "c">>,
     <<"0", "x", "7", "F", "F", "F", "c">>,
     <<"0", "x", "8", "0", "0", "0", "c">>,
     <<"0", "x", "7", "F", "F", "F", "F", "F", "F", "F", "c">>,
     <<"0", "x", "8", "0", "0", "0", "0", "0", "0", "0", "c">>,
     <<"0", "x", "7", "F", "F", "F", "F", "F", "F", "F", "F", "F", "F", "F", "F", "F", "F", "F", "c">>,
     <<"0", "x", "8", "0", "0", "0", "0", "0", "0", "0", "0", "0", "0", "0", "0", "0", "0", "0", "c">>,
     <<"0", "x", "F", "F", "F", "F", "F", "F", "F", "F", "F", "F", "F", "F", "F", "F", "F", "F", "c">>,
     <<"0", "x", "1", "0", "0", "0", "0", "0", "0", "0", "0", "0", "0", "0", "0", "0", "0", "0", "0", "c">>,
     <<"0", "X", "F", "F", "F", "F", "'", "F", "F", "F", "F", "'", "F", "F", "F", "F", "'", "F", "F", "F", "F", "C">>,
     <<"0", "b", "1", "1", "1", "1", "1", "1", "1", "1", "1", "1", "1", "1", "1", "1", "1", "1", "1", "1", "1", "1", "1", "1", "1", "1", "1", "1", "1", "1", "1", "1", "1", "1", "1", "1", "1", "1", "1", "1", "1", "1", "1", "1", "1", "1", "1", "1", "1", "1", "1", "1", "1", "1", "1", "1", "1", "1", "1", "1", "1", "1", "1", "1", "1", "1">>,
     <<"0", "b", "1", "0", "0", "0", "0", "0", "0", "0", "0", "0", "0", "0", "0", "0", "0", "0", "0", "0", "0", "0", "0", "0", "0", "0", "0", "0", "0", "0", "0", "0", "0", "0", "0", "0", "0", "0", "0", "0", "0", "0", "0", "0", "0", "0", "0", "0", "0", "0", "0", "0", "0", "0", "0", "0", "0", "0", "0", "0", "0", "0", "0", "0", "0", "0", "0">>,
     <<"0", "b", "1", "1", "1", "1", "1", "1", "1", "1", "1", "1", "1", "1", "1", "1", "1", "1", "1", "1", "1", "1", "1", "1", "1", "1", "1", "1", "1", "1", "1", "1", "1", "1", "1", "1", "1", "1", "1", "1", "1", "1", "1", "1", "1", "1", "1", "1", "1", "1", "1", "1", "1", "1", "1", "1", "1", "1", "1", "1", "1", "1", "1", "1", "1">>,
     <<"0", "1", "7", "7", "7", "7", "7", "7", "7", "7", "7", "7", "7", "7", "7", "7", "7", "7", "7", "7", "7", "7", "7">>,
     <<"0", "2", "0", "0", "0", "0", "0", "0", "0", "0", "0", "0", "0", "0", "0", "0", "0", "0", "0", "0", "0", "0", "0">>,
     <<"0", "7", "7", "7", "7", "7", "7", "7", "7", "7", "7", "7", "7", "7", "7", "7", "7", "7", "7", "7", "7", "7">>,
     <<"0", "'", "1", "7", "7">>, <<"0", "2", "0", "0">>,
     <<"0", "B", "1", "1", "0", "1">>}

Literals == ShortLiterals \cup TestLiterals \cup BoundaryLiterals

\* operator""cw (constexpr_wrapper.hpp:447-449)
operator_cw ==
    /\ expr.kind = "idle"
    /\ \E chars \in Literals :
          /\ expr' = Expr("literal", "cw", NoType, NoType, chars, "void")
          /\ res' = LiteralResult(cw_parse(chars))
    /\ UNCHANGED obj

\* operator""CW (constexpr_wrapper.hpp:451-453)
operator_CW ==
    /\ expr.kind = "idle"
    /\ \E chars \in Literals :
          /\ expr' = Expr("literal", "CW", NoType, NoType, chars, "void")
          /\ res' = LiteralResult(cw_parse(chars))
    /\ UNCHANGED obj

\* operator""w (constexpr_wrapper.hpp:455-462); a literal that does not satisfy
\* the requires-clause has no literal operator
operator_w ==
    /\ expr.kind = "idle"
    /\ \E chars \in Literals :
          /\ expr' = Expr("literal", "w", NoType, NoType, chars, "void")
          /\ res' = IF HexSuffixed(chars, "c") THEN LiteralResult(cw_parse(chars)) ELSE NoResult
    /\ UNCHANGED obj

\* operator""W (constexpr_wrapper.hpp:464-471)
operator_W ==
    /\ expr.kind = "idle"
    /\ \E chars \in Literals :
          /\ expr' = Expr("literal", "W", NoType, NoType, chars, "void")
          /\ res' = IF HexSuffixed(chars, "C") THEN LiteralResult(cw_parse(chars)) ELSE NoResult
    /\ UNCHANGED obj

\* the translation goes on to the next expression; a declared object stays in scope
NextExpr ==
    /\ expr.kind # "idle"
    /\ expr' = Idle
    /\ res' = NoResult
    /\ UNCHANGED obj

\* the block ends: the declared object goes out of scope (test.cpp:287)
EndBlock ==
    /\ expr.kind = "idle"
    /\ obj # NoObject
    /\ obj' = NoObject
    /\ UNCHANGED <<expr, res>>

Next ==
    \/ Binary
    \/ Call
    \/ Subscript
    \/ Concept
    \/ ReadValue
    \/ Convert
    \/ Identity
    \/ Unary
    \/ Declare
    \/ IncDec
    \/ Assign
    \/ Arrow
    \/ NextExpr
    \/ EndBlock

Spec == Init /\ [][Next]_vars

\* the translation of integer literals
LitNext ==
    \/ operator_cw
    \/ operator_CW
    \/ operator_w
    \/ operator_W
    \/ NextExpr

LitSpec == Init /\ [][LitNext]_vars

(***************************************************************************)
(* Properties.                                                             *)
(***************************************************************************)
\* std::cw<X>: a wrapper instantiation whose value type is the type of X
IsCw(A) == A.kind = "wrapper" /\ A.t = A.x.ty

\* a class derived from std::cw<X> that does not shadow `value`
IsDerivedCw(A) == A.kind = "derived" /\ A.t = A.x.ty

\* an ordinary run-time operand
IsRuntime(A) == A.kind \in {"plain", "object"}

\* a compile-time constant that is no wrapper
IsForeign(A) == A.kind \in {"foreign", "static"}

Defined(n) == n.wf /\ n.const

\* C1 (operator closure): for wrappers cw<X> and cw<Y> and a binary operator op
\* of +, -, *, /, %, &, |, ^, &&, ||, <<, >>, ==, !=, <, <=, >, >= with X op Y
\* defined, cw<X> op cw<Y> selects exactly one wrapper operator and its result is
\* the wrapper constexpr_wrapper<X op Y>: the value and the value type of X op Y.
C1_OperatorClosure ==
    (expr.kind = "binary" /\ expr.op \in ArithmeticOps /\ IsCw(expr.a) /\ IsCw(expr.b)) =>
        LET n == NativeOp(expr.op, expr.a.x, expr.b.x)
        IN Defined(n) => res = Result("wrapper", 1, n.val)

\* cw<-1> % cw<2> is constexpr_wrapper<-1>
C1_Witness ==
    /\ expr.kind = "binary" /\ expr.op = "%"
    /\ expr.a = Cw(TV("int", 0 - 1)) /\ expr.b = Cw(TV("int", 2))
    /\ res = Result("wrapper", 1, TV("int", 0 - 1))

\* C2 (no ambiguity): for two operand types that both satisfy constexpr_value, at
\* least one of them a wrapper instantiation or derived from one (the value type
\* may be given explicitly), exactly one hidden friend operator template has its
\* constraints satisfied.
C2_NoAmbiguity ==
    (/\ expr.kind = "binary"
     /\ constexpr_value(expr.a, "void") /\ constexpr_value(expr.b, "void")
     /\ IsWrapperDerived(expr.a) \/ IsWrapperDerived(expr.b)) =>
        res.cands = 1

\* the operand X of the native expression that `w op r` stands for
Unwrapped(A) == IF IsRuntime(A) THEN A.x ELSE Value(A)

IsEscape(e) ==
    /\ e.kind = "binary"
    /\ \/ e.a.kind = "wrapper" /\ IsRuntime(e.b)
       \/ IsRuntime(e.a) /\ e.b.kind = "wrapper"

\* X op r (or r op X) applies the converting constructor NeedsAdl(int) to the
\* wrapped value X
NeedsConstructor(e) ==
    \/ e.a.kind = "wrapper" /\ IsNumeric(e.a.t) /\ IsObjectOf(e.b, "NeedsAdl")
    \/ e.b.kind = "wrapper" /\ IsNumeric(e.b.t) /\ IsObjectOf(e.a, "NeedsAdl")

\* C3 as claimed (escape hatch): for a wrapper of X and a run-time operand r, no
\* wrapper operator is selected and, whenever X op r is defined, the result is
\* the plain value X op r.
C3_EscapeHatchAsClaimed ==
    IsEscape(expr) =>
        LET n == NativeOp(expr.op, Unwrapped(expr.a), Unwrapped(expr.b))
        IN /\ res.cands = 0
           /\ res.outcome # "wrapper"
           /\ Defined(n) => res = Result("plain", 0, n.val)

\* the classes of the model with a member operator, and that operator
HasMemberOp(ty, op) ==
    \/ ty = "Aaaargh" /\ op = "->*"
    \/ ty = "Test" /\ op \in {"==", "!="}

\* X op r is a member operator of the class of X, called on X
MemberOfX(e) == e.a.kind = "wrapper" /\ HasMemberOp(e.a.x.ty, e.op)

\* the operators with a reversed (or rewritten) candidate, for which r op X is
\* tried for X op r: here a member operator of r's class is called instead
IsReversible(op) == op \in {"==", "!="}

\* X op r can only call a member operator of the class of X with X as its object
NeedsMember(e) == MemberOfX(e) /\ ~IsReversible(e.op)

\* C3 (escape hatch, amended): for a wrapper of X and a run-time operand r, no
\* wrapper operator has its constraints satisfied and no wrapper is made.  The
\* comma operator yields its right operand as it is.  For every other operator,
\* when X op r is defined: the result is the plain value X op r when the operator
\* is built-in, a non-member, a member of r's class called on r (r ->* X), or a
\* member == or != of X's class, which is called on r as the reversed candidate;
\* the expression is ill-formed when X op r needs a converting constructor for X
\* or a member operator without reversed candidate called on X (X ->* r).
C3_EscapeHatch ==
    IsEscape(expr) =>
        LET n == NativeOp(expr.op, Unwrapped(expr.a), Unwrapped(expr.b))
            excluded == NeedsConstructor(expr) \/ NeedsMember(expr)
        IN /\ res.cands = 0
           /\ res.outcome \notin {"wrapper", "ambiguous"}
           /\ (expr.op = "," /\ IsRuntime(expr.b)) => res = Result("plain", 0, expr.b.x)
           /\ (expr.op = "," /\ ~IsRuntime(expr.b)) => res = Result("operand", 0, NoVal)
           /\ (expr.op # "," /\ Defined(n) /\ ~excluded) => res = Result("plain", 0, n.val)
           /\ (expr.op # "," /\ excluded) => res = NoResult

\* cw<NeedsAdl(1)> + 1 is the int 2 (test.cpp:264)
C3_Witness ==
    /\ expr.kind = "binary" /\ expr.op = "+"
    /\ expr.a = Cw(TV("NeedsAdl", 1)) /\ expr.b = Ty("plain", TV("int", 1), "int")
    /\ res = Result("plain", 0, TV("int", 2))

\* the wrapper instantiation a derived class stands for
Undress(A) == IF A.kind = "derived" THEN Wrapper(A.x, A.t) ELSE A

IsDerivedCase(e) ==
    /\ e.kind = "binary"
    /\ \/ IsDerivedCw(e.a) /\ (IsCw(e.b) \/ IsDerivedCw(e.b) \/ IsForeign(e.b))
       \/ IsCw(e.a) /\ IsDerivedCw(e.b)

\* C4 (derived-type transparency): with an operand of a class D derived from
\* cw<X> (and the other operand a wrapper, a derived class or a foreign constant),
\* exactly one operator template has its constraints satisfied and the result is
\* the result of the same expression with cw<X> in place of D; it is a wrapper
\* whenever the operation on the values is defined and its result is of a type
\* that a wrapper can hold.
C4_DerivedTransparency ==
    IsDerivedCase(expr) =>
        LET n == NativeOp(expr.op, Value(expr.a), Value(expr.b))
        IN /\ res.cands = 1
           /\ res = ResolveBinary(expr.op, Undress(expr.a), Undress(expr.b))
           /\ (Defined(n) /\ IsStructural(n.val.ty)) => res.outcome = "wrapper"

\* Derived<2>() + Derived<2>() is constexpr_wrapper<4>
C4_Witness ==
    /\ expr.kind = "binary" /\ expr.op = "+"
    /\ expr.a = Ty("derived", TV("int", 2), "int") /\ expr.b = expr.a
    /\ res = Result("wrapper", 1, TV("int", 4))

\* a foreign constant with a wrapper or wrapper-derived operand that satisfies
\* constexpr_value, in either order
IsMixed(e) ==
    \/ IsForeign(e.a) /\ IsWrapperDerived(e.b) /\ constexpr_value(e.b, "void")
    \/ IsForeign(e.b) /\ IsWrapperDerived(e.a) /\ constexpr_value(e.a, "void")

\* C5 as claimed (foreign constants): a foreign constant with a wrapper or
\* wrapper-derived operand, in either order, selects the wrapper's operator and
\* yields the wrapper of lhs.value op rhs.value whenever that is defined; two
\* foreign constants select no wrapper operator and never yield a wrapper.
C5_ForeignAsClaimed ==
    expr.kind = "binary" =>
        LET n == NativeOp(expr.op, Value(expr.a), Value(expr.b))
        IN /\ IsMixed(expr) => res.cands = 1 /\ (Defined(n) => res = Result("wrapper", 1, n.val))
           /\ (IsForeign(expr.a) /\ IsForeign(expr.b))
                => res.cands = 0 /\ res.outcome \notin {"wrapper", "ambiguous"}

\* C5 (foreign constants, amended): a foreign constant with a wrapper or
\* wrapper-derived operand that satisfies constexpr_value, in either order, has
\* the one wrapper operator's constraints satisfied; it yields the wrapper of
\* lhs.value op rhs.value when that is a constant of structural type, and when
\* it is a constant of another type (the std::strong_ordering of <=>) no wrapper
\* operator is selected and the result is that plain value (none for a foreign
\* type without a conversion).  Two foreign constants select no wrapper operator
\* and never yield a wrapper: the comma operator yields its right operand as it
\* is, every other operator the plain value of their own operator (none when
\* they have no conversion).
C5_ForeignConstants ==
    expr.kind = "binary" =>
        LET n == NativeOp(expr.op, Value(expr.a), Value(expr.b))
            both == IsForeign(expr.a) /\ IsForeign(expr.b)
            static == "static" \in {expr.a.kind, expr.b.kind}
        IN /\ IsMixed(expr) =>
                /\ res.cands = 1
                /\ (Defined(n) /\ IsStructural(n.val.ty)) => res = Result("wrapper", 1, n.val)
                /\ (Defined(n) /\ ~IsStructural(n.val.ty)) =>
                      res = IF static THEN Result("none", 1, NoVal) ELSE Result("plain", 1, n.val)
           /\ both => /\ res.cands = 0
                      /\ res.outcome \notin {"wrapper", "ambiguous"}
                      /\ expr.op = "," => res = Result("operand", 0, NoVal)
                      /\ (expr.op # "," /\ Defined(n) /\ ~static) => res = Result("plain", 0, n.val)
                      /\ (expr.op # "," /\ static) => res = NoResult

\* std::integral_constant<long, 2>() * Derived<2>() is constexpr_wrapper<4L>
C5_Witness ==
    /\ expr.kind = "binary" /\ expr.op = "*"
    /\ expr.a = Ty("foreign", TV("long", 2), "long")
    /\ expr.b = Ty("derived", TV("int", 2), "int")
    /\ res = Result("wrapper", 1, TV("long", 4))

IsInvoke(e) == e.kind \in {"call", "subscript"}

\* the arguments as the selected overload hands them to the wrapped value
UnwrappedArgs(args) == IF AllConstexpr(args) THEN ArgValuesOf(args) ELSE ArgObjectsOf(args)

\* C6 (call/subscript duality): w(args...) and w[args...] on a wrapper of V yield
\* the wrapper of V(args.value...) (V[args.value...]) when every argument
\* satisfies constexpr_value and that expression is a constant of structural type;
\* when some argument does not satisfy constexpr_value they never yield a wrapper:
\* the result is the plain V(args...) (V[args...]), and the expression is
\* ill-formed when that is.
C6_CallSubscriptDuality ==
    IsInvoke(expr) =>
        LET c == Invoke(expr.kind, expr.a.x, ArgValuesOf(expr.args))
            r == Invoke(expr.kind, expr.a.x, ArgObjectsOf(expr.args))
        IN /\ (AllConstexpr(expr.args) /\ Defined(c) /\ IsStructural(c.val.ty))
                => res = Result("wrapper", 1, c.val)
           /\ ~AllConstexpr(expr.args) =>
                /\ res.outcome # "wrapper"
                /\ r.wf => res = Result("plain", 1, r.val)
                /\ ~r.wf => res \in {NoResult, Result("error", 1, NoVal)}

\* cw<Test{2}>(cw<1>, cw<2>) is constexpr_wrapper<5> (test.cpp:206)
C6_Witness ==
    /\ expr.kind = "call" /\ expr.a = Cw(TV("Test", 2))
    /\ expr.args = <<Cw(TV("int", 1)), Cw(TV("int", 2))>>
    /\ res = Result("wrapper", 1, TV("int", 5))

\* C7 (totality of the dispatch): whenever the wrapped value can be called
\* (subscripted) with the unwrapped arguments, the expression on the wrapper is
\* well-formed and yields a wrapper or a plain value; a call without arguments of
\* a wrapped value that cannot be called without arguments yields the wrapped value.
C7_DispatchTotality ==
    IsInvoke(expr) =>
        LET v == Invoke(expr.kind, expr.a.x, UnwrappedArgs(expr.args))
        IN /\ v.wf => res.outcome \in {"wrapper", "plain"}
           /\ (expr.kind = "call" /\ expr.args = <<>> /\ ~v.wf)
                => res = Result("plain", 1, expr.a.x)

IsConceptQuery(e, void) == e.kind = "concept" /\ ((e.u = "void") <=> void)

\* C8 as claimed (capability predicate without target): constexpr_value<C> holds
\* for every wrapper instantiation, every class derived from one and every type
\* with a static compile-time `value`; it does not hold for types without `value`
\* or with a non-static one.
C8_CapabilityAsClaimed ==
    IsConceptQuery(expr, TRUE) =>
        /\ (IsWrapperDerived(expr.a) \/ IsForeign(expr.a)) => res.outcome = "true"
        /\ IsRuntime(expr.a) => res.outcome = "false"

\* C8 (capability predicate without target, amended): constexpr_value<C> holds
\* for every wrapper instantiation whose value type is structural, every class
\* derived from one that does not shadow `value`, and every type with a static
\* compile-time `value`; it does not hold for types without `value`, for types
\* whose `value` is a non-static data member (a derived class that shadows
\* `value` included), nor for a wrapper instantiation with a non-structural
\* value type.
C8_Capability ==
    IsConceptQuery(expr, TRUE) =>
        /\ (expr.a.kind \in {"wrapper", "derived"} /\ IsStructural(expr.a.t))
                => res.outcome = "true"
        /\ IsForeign(expr.a) => res.outcome = "true"
        /\ (expr.a.kind \in {"wrapper", "derived"} /\ ~IsStructural(expr.a.t))
                => res.outcome = "false"
        /\ (IsRuntime(expr.a) \/ expr.a.kind = "shadow") => res.outcome = "false"

\* constexpr_value<Derived<2>> holds
C8_Witness ==
    /\ expr.kind = "concept" /\ expr.u = "void"
    /\ expr.a = Ty("derived", TV("int", 2), "int")
    /\ res.outcome = "true"

\* a value of type ty converts implicitly to u
value_convertible(ty, u) == ty = u \/ (IsArith(ty) /\ (IsArith(u) \/ u \in ClassTypes))

\* C9 as claimed (capability predicate with target): constexpr_value<C, U> holds
\* exactly when constexpr_value<C> holds and the compile-time `value` of C is
\* convertible to U.
C9_TargetAsClaimed ==
    IsConceptQuery(expr, FALSE) =>
        (res.outcome = "true" <=>
            (constexpr_value(expr.a, "void") /\ value_convertible(Value(expr.a).ty, expr.u)))

\* C9 (capability predicate with target, amended): constexpr_value<C, U> holds
\* exactly when constexpr_value<C> holds and the type C itself converts
\* implicitly to U: through its own conversion function followed by at most a
\* standard conversion.
C9_Target ==
    IsConceptQuery(expr, FALSE) =>
        (res.outcome = "true" <=>
            /\ constexpr_value(expr.a, "void")
            /\ expr.a.kind # "static"
            /\ expr.u = expr.a.t \/ (IsArith(expr.a.t) /\ IsArith(expr.u)))

\* constexpr_value<cw<1>, long> holds
C9_Witness ==
    /\ expr.kind = "concept" /\ expr.u = "long"
    /\ expr.a = Cw(TV("int", 1))
    /\ res.outcome = "true"

\* C10 (round trip): for a wrapper of X with the deduced or an arithmetic value
\* type T, the static member `value` and the implicit conversion of an instance
\* both yield X as a T; with the deduced value type they yield X itself.
C10_RoundTrip ==
    (expr.kind \in {"value", "convert"} /\ (IsCw(expr.a) \/ IsArith(expr.a.t))) =>
        /\ res.outcome = "plain"
        /\ res.val.ty = expr.a.t
        /\ res.val.v = expr.a.x.v
        /\ IsCw(expr.a) => res.val = expr.a.x

\* the conversion of constexpr_wrapper<2, long>{} is 2L
C10_Witness ==
    /\ expr.kind = "convert"
    /\ expr.a = Wrapper(TV("int", 2), "long")
    /\ res = Result("plain", 0, TV("long", 2))

\* the value a wrapper instantiation holds, in its value type
WrappedValue(A) == ConvertValue(A.x, A.t)

\* C11 as claimed (type identity): two instantiations of a wrapper template are
\* the same type exactly when their wrapped values are equal and their value
\* types are the same.
C11_TypeIdentityAsClaimed ==
    expr.kind = "identity" =>
        (res.outcome = "true" <=> WrappedValue(expr.a) = WrappedValue(expr.b))

\* C11 (type identity, amended): two instantiations of a wrapper template are the
\* same type exactly when their template arguments X are equal in type and in
\* value and their value types are the same; instantiations that hold different
\* values of one value type are always distinct types.
C11_TypeIdentity ==
    expr.kind = "identity" =>
        /\ res.outcome = "true" <=> (expr.a.x = expr.b.x /\ expr.a.t = expr.b.t)
        /\ (expr.a.t = expr.b.t /\ WrappedValue(expr.a) # WrappedValue(expr.b))
                => res.outcome = "false"

\* constexpr_wrapper<1, long> and constexpr_wrapper<1L, long> both hold 1L and are
\* distinct types
C11_Witness ==
    /\ expr.kind = "identity"
    /\ expr.a = Wrapper(TV("int", 1), "long") /\ expr.b = Cw(TV("long", 1))
    /\ res.outcome = "false"

\* the right operand of an assignment-like operator is a compile-time constant,
\* or the operator has none
ConstantOperand(e) == e.b = NoType \/ constexpr_value(e.b, "void")

\* the result the value type's own operator returns for the value x
OwnResult(e, x) ==
    IF e.op \in IncDecOps THEN NativeUnary(e.op, x) ELSE NativeAssign(e.op, x, Value(e.b))

\* C12 (receiver immutability): every application of a mutating-form operator
\* (pre/post ++, pre/post --, =, the compound assignments) to a declared wrapper
\* object leaves the object's type and value unchanged, and with a constant right
\* operand it returns the wrapper of the result that the value type's own operator
\* returns for the declared value X (and the right operand's value), whenever
\* that result is defined.
C12_ReceiverImmutability ==
    [][expr'.kind = "mutate" =>
          /\ obj' = obj
          /\ (ConstantOperand(expr') /\ Defined(OwnResult(expr', obj.value)))
                => res' = Result("wrapper", 1, OwnResult(expr', obj.value).val)]_vars

\* the wrapper's implementation of operator->
IsConstexprT(A) == A.kind = "constexpr_t"

\* what operator-> is claimed to return for a wrapper of x
ClaimedArrow(x) == IF x.ty = "Handle" THEN Pointer(TV("Pt", x.v)) ELSE Pointer(x)

\* C13 as claimed (member-access unwrap): in both implementations operator-> on a
\* wrapper of a class-type X is defined and returns X's own operator->() result
\* when X provides one and otherwise the address of the stored value X; the
\* result is a plain pointer.
C13_ArrowAsClaimed ==
    (expr.kind = "arrow" /\ ~IsArith(expr.a.x.ty))
        => res = Result("pointer", 1, ClaimedArrow(expr.a.x))

\* C13 (member-access unwrap, amended): on a wrapper of a class-type X,
\* constexpr_wrapper's operator-> returns X's own operator->() result when X
\* provides one and otherwise the address of the stored value X; constexpr_t has
\* an operator-> only when X provides one, and returns its result.  The result
\* is a plain pointer, never a wrapper.
C13_Arrow ==
    (expr.kind = "arrow" /\ ~IsArith(expr.a.x.ty))
        => /\ (~IsConstexprT(expr.a) \/ expr.a.x.ty = "Handle")
                => res = Result("pointer", 1, ClaimedArrow(expr.a.x))
           /\ (IsConstexprT(expr.a) /\ expr.a.x.ty # "Handle") => res = NoResult
           /\ res.outcome # "wrapper"

\* std::cw<h>->m for a Handle h of the Pt object with m = 1 reaches that object
C13_Witness ==
    /\ expr.kind = "arrow"
    /\ expr.a = Cw(TV("Handle", 1))
    /\ res = Result("pointer", 1, Pointer(TV("Pt", 1)))

\* a wrapper of a scalar X: of integral or of floating-point type
IsScalarWrapper(A) == A.kind = "wrapper" /\ (IsArith(A.x.ty) \/ IsFloat(A.x.ty))

\* C14 as claimed (unary operators re-wrap unconditionally): for every wrapper of
\* a scalar X and every unary operator (+, -, ~, !, address-of, dereference,
\* pre/post increment and decrement), op wrapper(X) is defined and yields a
\* wrapper, never an unwrapped value.
C14_UnaryAsClaimed ==
    (expr.kind = "unary" /\ IsScalarWrapper(expr.a))
        => (res.outcome = "wrapper" /\ res.cands = 1)

\* the value and type of the native `op x` for an integral x and an
\* arithmetic operator
ArithUnary(op, x) ==
    CASE op = "+" -> TV(Promote(x.ty), x.v)
      [] op = "-" -> TV(Promote(x.ty), 0 - x.v)
      [] op = "~" -> TV(Promote(x.ty), 0 - x.v - 1)
      [] op = "!" -> TV("bool", IF x.v = 0 THEN 1 ELSE 0)

\* the value and type of the native `op x` for a floating-point x and one of +, -, !
FloatUnary(op, x) ==
    CASE op = "+" -> x
      [] op = "-" -> Fp(x.ty, IF x.sign = 0 THEN 1 ELSE 0, x.v, x.den)
      [] op = "!" -> TV("bool", IF x.v = 0 THEN 1 ELSE 0)

\* the operators that are defined for the value X of a scalar wrapper
DefinedUnary(x) == IF IsFloat(x.ty) THEN {"+", "-", "!"} ELSE {"+", "-", "~", "!"}

\* C14 (unary operators, amended): for every wrapper whose template argument X is
\* of integral type, the operators +, -, ~ and ! are defined and yield
\* constexpr_wrapper<op X>, never an unwrapped value, with the value and the type
\* of the native op X applied to the template argument; for X of floating-point
\* type the same holds of +, - and !, while ~ is not defined; dereference and
\* pre/post increment and decrement are not defined for either; address-of is the
\* built-in operator and yields a plain pointer to the wrapper object.
C14_Unary ==
    (expr.kind = "unary" /\ IsScalarWrapper(expr.a))
        => LET x == expr.a.x
           IN /\ expr.op \in DefinedUnary(x)
                   => res = Result("wrapper", 1, IF IsFloat(x.ty) THEN FloatUnary(expr.op, x)
                                                 ELSE ArithUnary(expr.op, x))
              /\ expr.op \in (IncDecOps \cup {"*", "~"}) \ DefinedUnary(x) => res = NoResult
              /\ expr.op = "&" => res = Result("plain", 0, Pointer(expr.a))

\* -constexpr_wrapper<1, long>{} is constexpr_wrapper<-1>, whose value type is int
C14_Witness ==
    /\ expr.kind = "unary" /\ expr.op = "-"
    /\ expr.a = Wrapper(TV("int", 1), "long")
    /\ res = Result("wrapper", 1, TV("int", 0 - 1))

\* C19 (zero-argument call and overload exclusivity): for every argument list at
\* most one overload of operator() (operator[]) is viable; a call without
\* arguments yields the wrapper of value() when the wrapped value is invocable
\* without arguments and the raw wrapped value when it is not; a subscript without
\* arguments yields the wrapper of value[] when that is well-formed.
C19_ZeroArgumentCall ==
    IsInvoke(expr) =>
        /\ res.cands <= 1
        /\ (expr.kind = "call" /\ expr.args = <<>>) =>
              IF InvokeCall(Value(expr.a), <<>>).wf
              THEN res = Result("wrapper", 1, InvokeCall(Value(expr.a), <<>>).val)
              ELSE res = Result("plain", 1, Value(expr.a))
        /\ (expr.kind = "subscript" /\ expr.args = <<>>
                /\ InvokeSubscript(Value(expr.a), <<>>).wf)
              => res = Result("wrapper", 1, InvokeSubscript(Value(expr.a), <<>>).val)

(***************************************************************************)
(* Integer literals: the value a literal denotes, as a natural number of   *)
(* any size (a sequence of limbs, least significant first, without a       *)
(* leading zero limb; zero is the empty sequence).                         *)
(***************************************************************************)
\* the digits and their values
DigitValue ==
    ("0" :> 0) @@ ("1" :> 1) @@ ("2" :> 2) @@ ("3" :> 3) @@ ("4" :> 4) @@
    ("5" :> 5) @@ ("6" :> 6) @@ ("7" :> 7) @@ ("8" :> 8) @@ ("9" :> 9) @@
    ("a" :> 10) @@ ("b" :> 11) @@ ("c" :> 12) @@ ("d" :> 13) @@ ("e" :> 14) @@
    ("f" :> 15) @@ ("A" :> 10) @@ ("B" :> 11) @@ ("C" :> 12) @@ ("D" :> 13) @@
    ("E" :> 14) @@ ("F" :> 15)

\* v * b + carry
RECURSIVE BigMulAdd(_, _, _)
BigMulAdd(v, b, carry) ==
    IF v = <<>> THEN (IF carry = 0 THEN <<>> ELSE <<carry>>)
    ELSE LET t == Head(v) * b + carry
         IN <<t % LimbBase>> \o BigMulAdd(Tail(v), b, t \div LimbBase)

\* the number that the digits d denote in base b, read from the digit at index i
\* with the number acc of the digits before it (the test of acc has the number
\* computed before the next digit is read)
RECURSIVE MathValueFrom(_, _, _, _)
MathValueFrom(d, b, i, acc) ==
    IF i > Len(d) \/ Len(acc) < 0 THEN acc
    ELSE MathValueFrom(d, b, i + 1, BigMulAdd(acc, b, DigitValue[d[i]]))

MathValue(d, b) == MathValueFrom(d, b, 1, <<>>)

RECURSIVE Bits(_)
Bits(n) == IF n = 0 THEN 0 ELSE 1 + Bits(n \div 2)

\* the number of binary digits of v
BitLength(v) == IF v = <<>> THEN 0 ELSE 16 * (Len(v) - 1) + Bits(v[Len(v)])

\* the number that an unsigned long long holds
Natural(x) ==
    IF x[4] # 0 THEN x
    ELSE IF x[3] # 0 THEN SubSeq(x, 1, 3)
    ELSE IF x[2] # 0 THEN SubSeq(x, 1, 2)
    ELSE IF x[1] # 0 THEN <<x[1]>>
    ELSE <<>>

\* a literal that a literal operator accepts as its operand
IsLiteral == expr.kind = "literal" /\ res.cands = 1

\* the characters of the literal without the digit separators
Stripped(chars) == SelectSeq(chars, LAMBDA c : c # "'")

\* the base of a literal: a prefix counts when more than two characters remain
DetectedBase(a) ==
    IF Len(a) > 2 /\ a[1] = "0"
    THEN IF a[2] \in {"x", "X"} THEN 16 ELSE IF a[2] = "b" THEN 2 ELSE 8
    ELSE 10

\* the base of a literal as claimed: 16 for 0x and 0X, 2 for 0b, 8 for any other
\* leading 0, and 10 otherwise
ClaimedBase(a) ==
    IF a[1] # "0" THEN 10
    ELSE IF Len(a) >= 2 /\ a[2] \in {"x", "X"} THEN 16
    ELSE IF Len(a) >= 2 /\ a[2] = "b" THEN 2
    ELSE 8

\* the digits of a literal of base b: the prefix is skipped, and the last
\* character of a hexadecimal literal is no digit
Digits(a, b) ==
    SubSeq(a, (IF b = 10 THEN 0 ELSE IF b = 8 THEN 1 ELSE 2) + 1,
              Len(a) - (IF b = 16 THEN 1 ELSE 0))

AllDigits(d, b) == \A i \in 1 .. Len(d) : d[i] \in DOMAIN DigitValue /\ DigitValue[d[i]] < b

\* the digits of the literal of the current state
LiteralDigits == Digits(Stripped(expr.args), DetectedBase(Stripped(expr.args)))

LiteralBase == DetectedBase(Stripped(expr.args))

\* the first type of the ladder that holds v: signed char (7 bits), short (15),
\* int (31), long (63; long long is as wide), unsigned long long
FirstFit(v) ==
    IF BitLength(v) <= 7 THEN "signed char"
    ELSE IF BitLength(v) <= 15 THEN "short"
    ELSE IF BitLength(v) <= 31 THEN "int"
    ELSE IF BitLength(v) <= 63 THEN "long"
    ELSE "unsigned long long"

\* C15 (smallest-fit ladder): every literal whose digits are digits of its base
\* and denote a value v of at most the maximum of unsigned long long is accepted,
\* and the literal operator yields the wrapper of exactly v in the first type of
\* the ladder signed char, short, int, long, long long, unsigned long long whose
\* maximum is at least v.
C15_SmallestFit ==
    (IsLiteral /\ AllDigits(LiteralDigits, LiteralBase)
               /\ BitLength(MathValue(LiteralDigits, LiteralBase)) <= 64)
        => /\ res.outcome = "wrapper"
           /\ Natural(res.val.v) = MathValue(LiteralDigits, LiteralBase)
           /\ res.val.ty = FirstFit(MathValue(LiteralDigits, LiteralBase))

\* C16 (overflow is never silent): for every sequence of digits of the detected
\* base, the accumulation loop ends with exactly the mathematical value of the
\* digits when that value is at most the maximum of unsigned long long, and
\* otherwise the literal fails with the out-of-range diagnostic; no wrapped-around
\* or truncated value is returned.
C16_NoSilentOverflow ==
    (IsLiteral /\ AllDigits(LiteralDigits, LiteralBase))
        => IF BitLength(MathValue(LiteralDigits, LiteralBase)) <= 64
           THEN /\ res.outcome \in {"wrapper", "out of range"}
                /\ Natural(res.val.v) = MathValue(LiteralDigits, LiteralBase)
           ELSE res.outcome = "out of range"

\* C17 (rejection for exactly two reasons): a literal is rejected if and only if
\* its digits (without separators and prefix) contain a character that is no
\* digit of the detected base or its numeric value exceeds the maximum of
\* unsigned long long; every other literal, every spelling of zero included, is
\* accepted and yields its value.
C17_RejectionReasons ==
    IsLiteral =>
        IF ~AllDigits(LiteralDigits, LiteralBase) THEN res.outcome = "invalid characters"
        ELSE IF BitLength(MathValue(LiteralDigits, LiteralBase)) > 64
             THEN res.outcome = "out of range"
        ELSE /\ res.outcome = "wrapper"
             /\ Natural(res.val.v) = MathValue(LiteralDigits, LiteralBase)

\* the digits of the literal of the current state as claimed
ClaimedDigits == Digits(Stripped(expr.args), ClaimedBase(Stripped(expr.args)))

\* the numeric value lies between 1 and the maximum of unsigned long long
InRange(v) == 1 <= BitLength(v) /\ BitLength(v) <= 64

\* C18 (prefix and separators): separators are removed first and do not
\* change the value; the base is 16 for a 0x/0X prefix, 2 for 0b, 8 for any other
\* leading 0 and 10 otherwise; the prefix is skipped and the last character of a
\* hexadecimal literal is no digit.  So a character that is no digit of that base
\* is rejected, and digits of a value in range yield that value.
C18_Prefix ==
    IsLiteral =>
        LET b == ClaimedBase(Stripped(expr.args))
        IN IF ~AllDigits(ClaimedDigits, b) THEN res.outcome = "invalid characters"
           ELSE InRange(MathValue(ClaimedDigits, b))
                    => /\ res.outcome = "wrapper"
                       /\ Natural(res.val.v) = MathValue(ClaimedDigits, b)

=============================================================================
